---- MODULE Spec2Model ----
(***************************************************************************)
(* AppMRR: the credential cipher, the RevenueCat adapter, the persistence  *)
(* layer, the rate limiter, the daily refresh job                          *)
(* (GET /api/cron/update-metrics) and the registration flow                *)
(* (POST /api/add-startup).                                                *)
(*                                                                         *)
(* Strings are sequences of tokens (words, punctuation, characters), so    *)
(* that concatenation is \o and String.prototype.includes is a search for  *)
(* a contiguous subsequence.  JS null / undefined are the one-token        *)
(* sequences NULL and UNDEFINED.                                           *)
(***************************************************************************)
EXTENDS Integers, Sequences, FiniteSets, TLC

VARIABLES
    env,              \* process environment: ENCRYPTION_KEY, CRON_SECRET
    startups,         \* table startups:        id         -> row
    api_keys,         \* table api_keys:        startup_id -> row
    revenue_metrics,  \* table revenue_metrics: startup_id -> row
    nextStartupId,    \* the SERIAL sequence startups_id_seq
    now,              \* Date.now(), in model time units
    run,              \* one record per in-flight cron request
    reg,              \* one record per in-flight add-startup request
    rateLimitStore,   \* rate limiter: identifier -> {count, resetAt}
    requestCount,     \* rate limiter: requests seen since start
    cipher,           \* one use of the credential cipher: seal, then open
    decisions         \* history: the rate limiter's verdict on each request so far

vars == <<env, startups, api_keys, revenue_metrics, nextStartupId, now,
          run, reg, rateLimitStore, requestCount, cipher, decisions>>

db == <<startups, api_keys, revenue_metrics, nextStartupId>>

-----------------------------------------------------------------------------
(* Bounds of the model *)

MaxId == 3        \* startups_id_seq stops handing out ids after this one
MaxTime == 2      \* the clock stops ticking at this time
NSeed == 3        \* most rows the store holds initially, one request at a time
NSeedConc == 2    \* most rows the store holds initially, concurrent requests
MaxRequests == 5  \* the rate limiter sees at most this many requests
MaxClock == 5     \* the clock of the rate limiter's specification stops here
NSeedOverlap == 1 \* most rows the store holds initially, overlapping cron requests

-----------------------------------------------------------------------------
(* JavaScript values *)

NULL == <<"\\null">>
UNDEFINED == <<"\\undefined">>

\* !v for the values the model uses
Falsy(v) == v \in {NULL, UNDEFINED, <<>>}

\* `${v}`
TemplateStr(v) ==
    IF v = UNDEFINED THEN <<"undefined">>
    ELSE IF v = NULL THEN <<"null">>
    ELSE v

\* s.includes(sub)
Includes(s, sub) ==
    \E i \in 0..(Len(s) - Len(sub)) : SubSeq(s, i + 1, i + Len(sub)) = sub

\* thrown values: new Error(message), with an optional name
Err(name, message) == [ok |-> FALSE, name |-> name, message |-> message]
Ok(value) == [ok |-> TRUE, value |-> value]

\* functions over finite domains, used for the tables
Put(f, k, v) == [x \in DOMAIN f \cup {k} |-> IF x = k THEN v ELSE f[x]]
Drop(f, k) == [x \in DOMAIN f \ {k} |-> f[x]]
EmptyMap == [x \in {} |-> 0]

-----------------------------------------------------------------------------
(* lib/encryption.ts: the credential cipher.                               *)
(* Byte strings are symbolic: random bytes, a PBKDF2 output, an AES-GCM    *)
(* ciphertext and an AES-GCM tag are distinct terms, equal only when built *)
(* from equal arguments.  A stored token is a sequence of atoms: a run of  *)
(* hex digits (carrying the bytes it encodes), the character ':', or a run *)
(* of characters that are not hex digits.                                  *)

Colon == [t |-> "colon"]
Hex(bytes) == [t |-> "hex", b |-> bytes]
NotHex(text) == [t |-> "text", v |-> text]

Rnd(x) == [rnd |-> x]
EmptyBuf == [empty |-> TRUE]

\* a UTF-16 code unit that is half of a pair, alone; U+FFFD
LoneSurrogate == "\\uD800"
ReplacementChar == "\\uFFFD"

\* the bytes of a string under 'utf8': one group of bytes per character, an
\* unpaired surrogate being written as the bytes of U+FFFD
Utf8Encode(s) ==
    [i \in 1..Len(s) |-> [utf8 |-> IF s[i] = LoneSurrogate THEN ReplacementChar ELSE s[i]]]

\* the string of well-formed UTF-8 bytes
Utf8Decode(bytes) == [i \in 1..Len(bytes) |-> bytes[i].utf8]

M_NoKey == <<"ENCRYPTION_KEY", "is", "not", "set", "in", "environment", "variables">>
M_BadFormat == <<"Invalid", "encrypted", "API", "key", "format">>
M_EncryptPrefix == <<"Failed", "to", "encrypt", "API", "key", ":">>
M_DecryptPrefix == <<"Failed", "to", "decrypt", "API", "key", ":">>
\* messages of node:crypto
M_AuthFail == <<"Unsupported", "state", "or", "unable", "to", "authenticate", "data">>
M_BadIv == <<"Invalid", "initialization", "vector">>
M_BadTagLen == <<"Invalid", "authentication", "tag", "length", ":", "0">>

getEncryptionKey ==
    IF Falsy(env.ENCRYPTION_KEY) THEN Err("Error", M_NoKey)
    ELSE Ok(env.ENCRYPTION_KEY)

deriveKey(password, salt) == [pw |-> password, salt |-> salt]

\* crypto.createCipheriv('aes-256-gcm', key, iv): update/final and getAuthTag
GcmCiphertext(key, iv, plaintext) == [enc |-> [key |-> key, iv |-> iv, pt |-> plaintext]]
GcmTag(key, iv, ciphertext) == [mac |-> [key |-> key, iv |-> iv, ct |-> ciphertext]]

\* decryption that does not verify the tag
GcmDecryptUnverified(key, iv, tag, ciphertext) ==
    IF iv = EmptyBuf THEN Err("Error", M_BadIv)
    ELSE IF tag = EmptyBuf THEN Err("Error", M_BadTagLen)
    ELSE IF "enc" \in DOMAIN ciphertext THEN Ok(ciphertext.enc.pt)
    ELSE Ok(<<>>)

\* crypto.createDecipheriv + setAuthTag + update + final
GcmDecrypt(key, iv, tag, ciphertext) ==
    IF iv = EmptyBuf THEN Err("Error", M_BadIv)
    ELSE IF tag = EmptyBuf THEN Err("Error", M_BadTagLen)
    ELSE IF tag # GcmTag(key, iv, ciphertext) THEN Err("Error", M_AuthFail)
    ELSE Ok(ciphertext.enc.pt)

\* a token with its fields in another order: tag first
SealTokenTagFirst(password, apiKey, salt, iv) ==
    LET key == deriveKey(password, salt)
        encrypted == GcmCiphertext(key, iv, Utf8Encode(apiKey))
        tag == GcmTag(key, iv, encrypted)
    IN  <<Hex(tag), Colon, Hex(salt), Colon, Hex(iv), Colon, Hex(encrypted)>>

\* encryption under a salt and an iv fixed once and for all
encryptApiKeyFixedDraws(apiKey, salt, iv) ==
    LET k == getEncryptionKey IN
    IF ~k.ok THEN Err("Error", M_EncryptPrefix \o k.message)
    ELSE LET key == deriveKey(k.value, Rnd("s1"))
             encrypted == GcmCiphertext(key, Rnd("n1"), Utf8Encode(apiKey))
             tag == GcmTag(key, Rnd("n1"), encrypted)
         IN  Ok(<<Hex(Rnd("s1")), Colon, Hex(Rnd("n1")), Colon, Hex(tag), Colon,
                  Hex(encrypted)>>)

\* the body of encryptApiKey once the master secret is known:
\* salt.toString('hex') + ':' + iv.toString('hex') + ':' + tag... + ':' + encrypted
SealToken(password, apiKey, salt, iv) ==
    LET key == deriveKey(password, salt)
        encrypted == GcmCiphertext(key, iv, Utf8Encode(apiKey))
        tag == GcmTag(key, iv, encrypted)
    IN  <<Hex(salt), Colon, Hex(iv), Colon, Hex(tag), Colon, Hex(encrypted)>>

encryptApiKey(apiKey, salt, iv) ==
    LET k == getEncryptionKey IN
    IF ~k.ok THEN Err("Error", M_EncryptPrefix \o k.message)
    ELSE Ok(SealToken(k.value, apiKey, salt, iv))

\* s.split(':')
RECURSIVE Split(_)
Split(s) ==
    IF \A i \in 1..Len(s) : s[i] # Colon THEN <<s>>
    ELSE LET i == CHOOSE i \in 1..Len(s) :
                      s[i] = Colon /\ \A j \in 1..(i - 1) : s[j] # Colon
         IN  <<SubSeq(s, 1, i - 1)>> \o Split(SubSeq(s, i + 1, Len(s)))

\* Buffer.from(field, 'hex'): decoding stops at the first character that is
\* not a hex digit
FromHex(field) ==
    IF Len(field) >= 1 /\ field[1].t = "hex" THEN field[1].b ELSE EmptyBuf

\* decryption that asks for the master secret before it looks at the token
decryptApiKeyKeyFirst(encryptedApiKey) ==
    LET k == getEncryptionKey
        parts == Split(encryptedApiKey)
    IN  IF ~k.ok THEN Err("Error", M_DecryptPrefix \o k.message)
        ELSE IF Len(parts) # 4 THEN Err("Error", M_DecryptPrefix \o M_BadFormat)
        ELSE LET d == GcmDecrypt(deriveKey(k.value, FromHex(parts[1])), FromHex(parts[2]),
                                 FromHex(parts[3]), FromHex(parts[4]))
             IN  IF d.ok THEN Ok(Utf8Decode(d.value))
                 ELSE Err("Error", M_DecryptPrefix \o d.message)

decryptApiKey(encryptedApiKey) ==
    LET parts == Split(encryptedApiKey) IN
    IF Len(parts) # 4 THEN Err("Error", M_DecryptPrefix \o M_BadFormat)
    ELSE LET salt == FromHex(parts[1])
             iv == FromHex(parts[2])
             tag == FromHex(parts[3])
             encrypted == parts[4]
             k == getEncryptionKey
         IN  IF ~k.ok THEN Err("Error", M_DecryptPrefix \o k.message)
             ELSE LET key == deriveKey(k.value, salt)
                      d == GcmDecrypt(key, iv, tag, FromHex(encrypted))
                  IN  IF d.ok THEN Ok(Utf8Decode(d.value))
                      ELSE Err("Error", M_DecryptPrefix \o d.message)

-----------------------------------------------------------------------------
(* lib/revenuecat.ts: the metrics source adapter.                          *)
(* What RevenueCat answers is the environment's choice: either the request *)
(* fails in the network, or it returns a status and a body.  A body is its *)
(* text together with what JSON.parse makes of it.                         *)

M_InvalidApiKey == <<"Invalid", "API", "key">>
M_InvalidApiKeyDot == <<"Invalid", "API", "key", ".">>
M_FetchFailed == <<"fetch", "failed">>
M_JsonSyntax == <<"Unexpected", "token", "<", "in", "JSON">>
M_NotAnObject == <<"Cannot", "read", "properties", "of", "undefined">>
M_NotAFunction == <<"errorMessage", ".", "includes", "is", "not", "a", "function">>
M_ProjectIdRequired == <<"Project", "ID", "is", "required">>

\* a JSON value that is a number, as the message of an error body
JSON_NUMBER == <<"\\number">>

\* body shapes
JsonObject(text, fields) == [text |-> text, json |-> "object", fields |-> fields]
JsonNull == [text |-> <<"null">>, json |-> "null", fields |-> EmptyMap]
NotJson(text) == [text |-> text, json |-> "none", fields |-> EmptyMap]

Field(obj, name) == IF name \in DOMAIN obj THEN obj[name] ELSE UNDEFINED

Http(status, statusText, body) ==
    [net |-> TRUE, status |-> status, statusText |-> statusText, body |-> body]
NetworkError == [net |-> FALSE, status |-> 0, statusText |-> <<>>, body |-> NotJson(<<>>)]

\* data.metrics[0]?.value || 0: the first item, whatever its id
FindValueOfFirst(metrics, id) ==
    IF metrics = <<>> THEN 0 ELSE Head(metrics).value

\* data.metrics.find((m) => m.id === id)?.value || 0
RECURSIVE FindValue(_, _)
FindValue(metrics, id) ==
    IF metrics = <<>> THEN 0
    ELSE IF Head(metrics).id = id THEN Head(metrics).value
    ELSE FindValue(Tail(metrics), id)

\* the signature without the status: the message alone decides
IsInvalidKeyText(status, errorMessage) ==
    \/ errorMessage = M_InvalidApiKeyDot
    \/ Includes(errorMessage, M_InvalidApiKey)

\* lines 75-81
IsInvalidKeySignature(status, errorMessage) ==
    /\ status = 401
    /\ \/ errorMessage = M_InvalidApiKeyDot
       \/ Includes(errorMessage, M_InvalidApiKey)

fetchRevenueCatMetrics(apiKey, projectId, resp) ==
    IF Falsy(projectId) THEN Err("Error", M_ProjectIdRequired)
    ELSE IF ~resp.net THEN Err("TypeError", M_FetchFailed)
    ELSE IF ~(resp.status \in 200..299) THEN
        LET errorText == resp.body.text
            errorBody == IF resp.body.json = "none"
                         THEN [message |-> errorText]
                         ELSE resp.body.fields
        IN  IF resp.body.json = "null" THEN Err("TypeError", M_NotAnObject)
            ELSE LET m1 == Field(errorBody, "message")
                     m2 == Field(errorBody, "error")
                     errorMessage == IF ~Falsy(m1) THEN m1
                                     ELSE IF ~Falsy(m2) THEN m2
                                     ELSE errorText
                 IN  IF resp.status = 401 /\ errorMessage = JSON_NUMBER
                     THEN Err("TypeError", M_NotAFunction)
                     ELSE IF IsInvalidKeySignature(resp.status, errorMessage)
                     THEN Err("InvalidApiKeyError", M_InvalidApiKey)
                     ELSE Err("Error",
                              <<"RevenueCat", "API", "error", ":", ToString(resp.status)>>
                              \o resp.statusText \o <<".">> \o errorText)
    ELSE IF resp.body.json = "none" THEN Err("SyntaxError", M_JsonSyntax)
    ELSE IF resp.body.json = "null" \/ "metrics" \notin DOMAIN resp.body.fields
         THEN Err("TypeError", M_NotAnObject)
    ELSE Ok([mrr |-> FindValue(resp.body.fields.metrics, "mrr"),
             revenue |-> FindValue(resp.body.fields.metrics, "revenue")])

\* a validation that accepts the key whatever RevenueCat answers
validateRevenueCatApiKeyAnyAnswer(apiKey, projectId, resp) == TRUE

validateRevenueCatApiKey(apiKey, projectId, resp) ==
    fetchRevenueCatMetrics(apiKey, projectId, resp).ok


-----------------------------------------------------------------------------
(* lib/rate-limit.ts.  One model time unit is half an hour.                *)

CLEANUP_INTERVAL == 1000
RATE_MAX == 3          \* max: 3
RATE_WINDOW == 2       \* windowMs: 60 * 60 * 1000

\* lines 145-152; at is what its own Date.now() returns
cleanup(store, at) ==
    [k \in {x \in DOMAIN store : ~(at > store[x].resetAt)} |-> store[k]]

\* lines 213-216: the store as checkRateLimit finds it after its periodic
\* cleanup
StoreAfterCleanup(at) ==
    IF (requestCount + 1) % CLEANUP_INTERVAL = 0 THEN cleanup(rateLimitStore, at)
    ELSE rateLimitStore

\* what the clock can show when cleanup reads it, after checkRateLimit has
\* read now: the same time or a later one
CleanupClock ==
    IF (requestCount + 1) % CLEANUP_INTERVAL = 0 THEN {now, now + 1} ELSE {now}

\* a limiter that lets one request more through than max
checkRateLimitInOneMore(store, identifier, max, windowMs) ==
    IF identifier \notin DOMAIN store \/ now > store[identifier].resetAt
    THEN [allowed |-> TRUE, current |-> 1, limit |-> max,
          resetAt |-> now + windowMs, retryAfter |-> 0,
          store |-> Put(store, identifier, [count |-> 1, resetAt |-> now + windowMs])]
    ELSE LET count == store[identifier].count + 1
             resetAt == store[identifier].resetAt
         IN  [allowed |-> count <= max + 1, current |-> count, limit |-> max,
              resetAt |-> resetAt,
              retryAfter |-> IF count <= max + 1 THEN 0 ELSE resetAt - now,
              store |-> Put(store, identifier, [count |-> count, resetAt |-> resetAt])]

\* lines 219-250 of checkRateLimit on a given store: the result, with the
\* store it leaves behind
checkRateLimitIn(store, identifier, max, windowMs) ==
    IF identifier \notin DOMAIN store \/ now > store[identifier].resetAt
    THEN [allowed |-> TRUE, current |-> 1, limit |-> max,
          resetAt |-> now + windowMs, retryAfter |-> 0,
          store |-> Put(store, identifier, [count |-> 1, resetAt |-> now + windowMs])]
    ELSE LET count == store[identifier].count + 1
             resetAt == store[identifier].resetAt
         IN  [allowed |-> count <= max, current |-> count, limit |-> max,
              resetAt |-> resetAt,
              retryAfter |-> IF count <= max THEN 0 ELSE resetAt - now,
              store |-> Put(store, identifier, [count |-> count, resetAt |-> resetAt])]

checkRateLimit(identifier, max, windowMs, at) ==
    checkRateLimitIn(StoreAfterCleanup(at), identifier, max, windowMs)

\* s.split(',')[0]
FirstOfList(s) ==
    IF \E i \in 1..Len(s) : s[i] = ","
    THEN SubSeq(s, 1, (CHOOSE i \in 1..Len(s) :
                          s[i] = "," /\ \A j \in 1..(i - 1) : s[j] # ",") - 1)
    ELSE s

IsWs(c) == c \in {" ", "\t", "\n"}

RECURSIVE TrimLeft(_)
TrimLeft(s) == IF s # <<>> /\ IsWs(Head(s)) THEN TrimLeft(Tail(s)) ELSE s

RECURSIVE TrimRight(_)
TrimRight(s) ==
    IF s # <<>> /\ IsWs(s[Len(s)]) THEN TrimRight(SubSeq(s, 1, Len(s) - 1)) ELSE s

\* s.trim()
Trim(s) == TrimRight(TrimLeft(s))

getClientIdentifier(headers) ==
    IF ~Falsy(headers.forwardedFor) THEN Trim(FirstOfList(headers.forwardedFor))
    ELSE IF ~Falsy(headers.realIp) THEN headers.realIp
    ELSE IF ~Falsy(headers.cfIp) THEN headers.cfIp
    ELSE <<"unknown">>

-----------------------------------------------------------------------------
(* lib/validation.ts.  Field values are sequences of characters; a markup  *)
(* tag, a control character and a script pattern are one token each.  A    *)
(* URL is <<protocol, "//", hostname>> followed by path tokens.            *)

MAX_LENGTHS ==
    [name |-> 100, websiteUrl |-> 500, founderUsername |-> 50, projectId |-> 100,
     appStoreId |-> 50, revenuecatApiKey |-> 500]
MIN_LENGTHS == [name |-> 1, projectId |-> 4, revenuecatApiKey |-> 10]

\* typeof v !== 'string'
NotString(v) == v \in {NULL, UNDEFINED, JSON_NUMBER}

Digits == {"0", "1", "2", "3", "4", "5", "6", "7", "8", "9"}
Letters == {"a", "b", "c", "e", "i", "j", "k", "l", "p", "r", "s", "t", "v", "x",
            "A", "M", "R"}
ControlChars == {"\\0", "\\x07"}
MarkupTags == {"<b>", "</b>", "<script>"}
ScriptPatterns == {"javascript:", "onclick="}

RECURSIVE CollapseWs(_)
CollapseWs(s) ==
    IF s = <<>> THEN <<>>
    ELSE IF IsWs(Head(s)) THEN <<" ">> \o CollapseWs(TrimLeft(Tail(s)))
    ELSE <<Head(s)>> \o CollapseWs(Tail(s))

sanitizeString(input) ==
    IF NotString(input) THEN <<>>
    ELSE LET keep(c) == c \notin ControlChars \cup MarkupTags \cup ScriptPatterns
         IN  Trim(CollapseWs(SelectSeq(input, keep)))

Valid(value) == [valid |-> TRUE, value |-> value, error |-> <<>>]
Invalid(value, error) == [valid |-> FALSE, value |-> value, error |-> error]

AllIn(s, chars) == \A i \in 1..Len(s) : s[i] \in chars

validateName(name) ==
    IF NotString(name) THEN Invalid(<<>>, <<"Name", "must", "be", "a", "string">>)
    ELSE LET sanitized == sanitizeString(name) IN
         IF Len(sanitized) < MIN_LENGTHS.name
         THEN Invalid(sanitized, <<"Name", "is", "required">>)
         ELSE IF Len(sanitized) > MAX_LENGTHS.name
         THEN Invalid(sanitized, <<"Name", "must", "be", "100", "characters", "or", "less">>)
         ELSE IF \E i \in 1..Len(sanitized) :
                    sanitized[i] \in {"<", ">", "{", "}", "[", "]", "\\"}
         THEN Invalid(sanitized, <<"Name", "contains", "invalid", "characters">>)
         ELSE Valid(sanitized)

Protocols == {"http:", "https:", "ftp:"}
PrivateHosts == {"localhost", "127.0.0.1", "192.168.1.1", "10.0.0.1", "172.16.0.1",
                 "0.0.0.0", "::1"}

validateUrl(url) ==
    IF Falsy(url) \/ NotString(url)
    THEN Invalid(<<>>, <<"URL", "must", "be", "a", "string">>)
    ELSE LET sanitized == sanitizeString(url) IN
         IF Len(sanitized) > MAX_LENGTHS.websiteUrl
         THEN Invalid(sanitized, <<"URL", "must", "be", "500", "characters", "or", "less">>)
         ELSE IF ~(Len(sanitized) >= 3 /\ sanitized[1] \in Protocols /\ sanitized[2] = "//")
         THEN Invalid(sanitized, <<"Invalid", "URL", "format">>)
         ELSE IF sanitized[1] \notin {"http:", "https:"}
         THEN Invalid(sanitized, <<"URL", "must", "use", "http", "or", "https", "protocol">>)
         ELSE IF sanitized[3] \in PrivateHosts
         THEN Invalid(sanitized,
                      <<"URL", "cannot", "point", "to", "private/local", "addresses">>)
         ELSE Valid(sanitized)

validateUsername(username) ==
    IF Falsy(username) \/ NotString(username) THEN Valid(<<>>)
    ELSE LET s0 == sanitizeString(username)
             sanitized == IF s0 # <<>> /\ Head(s0) = "@" THEN Tail(s0) ELSE s0
         IN  IF Len(sanitized) > MAX_LENGTHS.founderUsername
             THEN Invalid(sanitized,
                          <<"Username", "must", "be", "50", "characters", "or", "less">>)
             ELSE IF sanitized = <<>> \/ ~AllIn(sanitized, Letters \cup Digits \cup {"_"})
             THEN Invalid(sanitized, <<"Username", "can", "only", "contain", "letters",
                                       ",", "numbers", ",", "and", "underscores">>)
             ELSE Valid(sanitized)

validateAppStoreId(appStoreId) ==
    IF Falsy(appStoreId) \/ NotString(appStoreId) THEN Valid(<<>>)
    ELSE LET sanitized == sanitizeString(appStoreId) IN
         IF Len(sanitized) > MAX_LENGTHS.appStoreId
         THEN Invalid(sanitized,
                      <<"App", "Store", "ID", "must", "be", "50", "characters", "or", "less">>)
         ELSE IF sanitized = <<>> \/ ~AllIn(sanitized, Digits)
         THEN Invalid(sanitized, <<"App", "Store", "ID", "must", "contain", "only", "numbers">>)
         ELSE Valid(sanitized)

validateProjectId(projectId) ==
    IF NotString(projectId)
    THEN Invalid(<<>>, <<"Project", "ID", "must", "be", "a", "string">>)
    ELSE LET sanitized == sanitizeString(projectId) IN
         IF Len(sanitized) < MIN_LENGTHS.projectId
         THEN Invalid(sanitized,
                      <<"Project", "ID", "must", "be", "at", "least", "4", "characters">>)
         ELSE IF Len(sanitized) > MAX_LENGTHS.projectId
         THEN Invalid(sanitized,
                      <<"Project", "ID", "must", "be", "100", "characters", "or", "less">>)
         ELSE IF ~AllIn(sanitized, Letters \cup Digits \cup {"_", "-"})
         THEN Invalid(sanitized, <<"Project", "ID", "contains", "invalid", "characters">>)
         ELSE Valid(sanitized)

validateApiKey(apiKey) ==
    IF NotString(apiKey)
    THEN Invalid(<<>>, <<"API", "key", "must", "be", "a", "string">>)
    ELSE LET trimmed == Trim(apiKey) IN
         IF Len(trimmed) < MIN_LENGTHS.revenuecatApiKey
         THEN Invalid(trimmed, <<"API", "key", "is", "too", "short">>)
         ELSE IF Len(trimmed) > MAX_LENGTHS.revenuecatApiKey
         THEN Invalid(trimmed, <<"API", "key", "is", "too", "long">>)
         ELSE IF SubSeq(trimmed, 1, 3) # <<"s", "k", "_">>
         THEN Invalid(trimmed, <<"Invalid", "API", "key", "format", "(", "must", "start",
                                 "with", "sk_", ")">>)
         ELSE IF ~AllIn(trimmed, Letters \cup Digits \cup {"_"})
         THEN Invalid(trimmed, <<"API", "key", "contains", "invalid", "characters">>)
         ELSE Valid(trimmed)

-----------------------------------------------------------------------------
(* lib/db.ts over schema.sql.  Every call may fail in the datastore: dbOk  *)
(* is the environment's choice.                                            *)

M_DbError == <<"connection", "terminated", "unexpectedly">>
M_ForeignKey == <<"violates", "foreign", "key", "constraint">>
M_UniqueProjectId == <<"duplicate", "key", "value", "violates", "unique", "constraint",
                       "idx_api_keys_project_id_unique">>

\* rows of api_keys in the order `order` (the query has no ORDER BY)
getStartupsWithApiKeys(order, dbOk) ==
    IF ~dbOk
    THEN Err("Error", <<"Failed", "to", "fetch", "API", "keys", ":">> \o M_DbError)
    ELSE Ok([i \in 1..Len(order) |->
                [startup_id |-> order[i],
                 encrypted_api_key |-> api_keys[order[i]].revenuecat_api_key,
                 project_id |-> api_keys[order[i]].revenuecat_project_id]])

\* the upsert that adds to the row instead of replacing it
upsertRevenueMetricsAccumulate(startupId, totalRevenue, mrr, dbOk) ==
    LET prefix == <<"Failed", "to", "upsert", "revenue", "metrics", ":">>
        old == IF startupId \in DOMAIN revenue_metrics THEN revenue_metrics[startupId]
               ELSE [total_revenue |-> 0, mrr |-> 0, last_updated |-> 0]
    IN  IF ~dbOk THEN Err("Error", prefix \o M_DbError)
        ELSE IF startupId \notin DOMAIN startups THEN Err("Error", prefix \o M_ForeignKey)
        ELSE Ok(Put(revenue_metrics, startupId,
                    [total_revenue |-> old.total_revenue + totalRevenue,
                     mrr |-> old.mrr + mrr, last_updated |-> now]))

\* the upsert that keeps a row already written at this time
upsertRevenueMetricsKeepFirst(startupId, totalRevenue, mrr, dbOk) ==
    LET prefix == <<"Failed", "to", "upsert", "revenue", "metrics", ":">> IN
    IF ~dbOk THEN Err("Error", prefix \o M_DbError)
    ELSE IF startupId \notin DOMAIN startups THEN Err("Error", prefix \o M_ForeignKey)
    ELSE IF startupId \in DOMAIN revenue_metrics
            /\ revenue_metrics[startupId].last_updated = now
    THEN Ok(revenue_metrics)
    ELSE Ok(Put(revenue_metrics, startupId,
                [total_revenue |-> totalRevenue, mrr |-> mrr, last_updated |-> now]))

\* the upsert into a table without REFERENCES startups(id)
upsertRevenueMetricsNoForeignKey(startupId, totalRevenue, mrr, dbOk) ==
    IF ~dbOk
    THEN Err("Error", <<"Failed", "to", "upsert", "revenue", "metrics", ":">> \o M_DbError)
    ELSE Ok(Put(revenue_metrics, startupId,
                [total_revenue |-> totalRevenue, mrr |-> mrr, last_updated |-> now]))

\* the update without its WHERE clause: every row takes the new values
upsertRevenueMetricsEveryRow(startupId, totalRevenue, mrr, dbOk) ==
    LET prefix == <<"Failed", "to", "upsert", "revenue", "metrics", ":">> IN
    IF ~dbOk THEN Err("Error", prefix \o M_DbError)
    ELSE IF startupId \notin DOMAIN startups THEN Err("Error", prefix \o M_ForeignKey)
    ELSE Ok([k \in DOMAIN revenue_metrics \cup {startupId} |->
                [total_revenue |-> totalRevenue, mrr |-> mrr, last_updated |-> now]])

\* returns the new revenue_metrics table
upsertRevenueMetrics(startupId, totalRevenue, mrr, dbOk) ==
    LET prefix == <<"Failed", "to", "upsert", "revenue", "metrics", ":">> IN
    IF ~dbOk THEN Err("Error", prefix \o M_DbError)
    ELSE IF startupId \notin DOMAIN startups THEN Err("Error", prefix \o M_ForeignKey)
    ELSE Ok(Put(revenue_metrics, startupId,
                [total_revenue |-> totalRevenue, mrr |-> mrr, last_updated |-> now]))

\* the delete without ON DELETE CASCADE: the startups row alone goes
deleteStartupRowOnly(startupId, dbOk) ==
    IF ~dbOk
    THEN Err("Error", <<"Failed", "to", "delete", "startup", ":">> \o M_DbError)
    ELSE Ok([startups |-> Drop(startups, startupId),
             api_keys |-> api_keys,
             revenue_metrics |-> revenue_metrics])

\* returns the three tables after DELETE FROM startups WHERE id = startupId,
\* with ON DELETE CASCADE on api_keys and revenue_metrics
deleteStartup(startupId, dbOk) ==
    IF ~dbOk
    THEN Err("Error", <<"Failed", "to", "delete", "startup", ":">> \o M_DbError)
    ELSE Ok([startups |-> Drop(startups, startupId),
             api_keys |-> Drop(api_keys, startupId),
             revenue_metrics |-> Drop(revenue_metrics, startupId)])

\* the check made atomic with the writes: a project id is also taken while
\* another request that passed the check has not yet stored its credential
isProjectIdTakenOrPending(projectId, dbOk) ==
    IF Falsy(projectId) THEN Ok(FALSE)
    ELSE LET normalized == Trim(projectId) IN
         IF Falsy(normalized) THEN Ok(FALSE)
         ELSE IF ~dbOk
         THEN Err("Error", <<"Failed", "to", "validate", "project", "ID", "uniqueness", ":">>
                           \o M_DbError)
         ELSE Ok(\/ \E id \in DOMAIN api_keys :
                       api_keys[id].revenuecat_project_id = normalized
                 \/ \E h \in DOMAIN reg :
                       /\ reg[h].pc \in {"validate", "fetch", "create", "storekey"}
                       /\ reg[h].input.projectId = normalized)

\* the check that finds no project id registered
isProjectIdNeverTaken(projectId, dbOk) == Ok(FALSE)

\* is some credential row registered under this project id?
isProjectIdTaken(projectId, dbOk) ==
    IF Falsy(projectId) THEN Ok(FALSE)
    ELSE LET normalized == Trim(projectId) IN
         IF Falsy(normalized) THEN Ok(FALSE)
         ELSE IF ~dbOk
         THEN Err("Error", <<"Failed", "to", "validate", "project", "ID", "uniqueness", ":">>
                           \o M_DbError)
         ELSE Ok(\E id \in DOMAIN api_keys : api_keys[id].revenuecat_project_id = normalized)

\* returns the inserted row, with the id the sequence assigned
createStartup(name, websiteUrl, founderUsername, appStoreId, dbOk) ==
    IF ~dbOk
    THEN Err("Error", <<"Failed", "to", "create", "startup", ":">> \o M_DbError)
    ELSE Ok([id |-> nextStartupId, name |-> name, website_url |-> websiteUrl,
             founder_username |-> founderUsername, app_store_id |-> appStoreId])

\* the upsert into a table without idx_api_keys_project_id_unique
upsertApiKeyNoUniqueIndex(startupId, encryptedApiKey, projectId, dbOk) ==
    LET prefix == <<"Failed", "to", "upsert", "API", "key", ":">>
        stored == IF Falsy(projectId) THEN NULL ELSE projectId
    IN  IF ~dbOk THEN Err("Error", prefix \o M_DbError)
        ELSE IF startupId \notin DOMAIN startups THEN Err("Error", prefix \o M_ForeignKey)
        ELSE Ok(Put(api_keys, startupId,
                    [revenuecat_api_key |-> encryptedApiKey,
                     revenuecat_project_id |-> stored]))

\* returns the new api_keys table; the insert is checked against the foreign
\* key and against idx_api_keys_project_id_unique
upsertApiKey(startupId, encryptedApiKey, projectId, dbOk) ==
    LET prefix == <<"Failed", "to", "upsert", "API", "key", ":">>
        stored == IF Falsy(projectId) THEN NULL ELSE projectId
    IN  IF ~dbOk THEN Err("Error", prefix \o M_DbError)
        ELSE IF startupId \notin DOMAIN startups THEN Err("Error", prefix \o M_ForeignKey)
        ELSE IF /\ stored # NULL
                /\ \E id \in DOMAIN api_keys \ {startupId} :
                      api_keys[id].revenuecat_project_id = stored
        THEN Err("Error", prefix \o M_UniqueProjectId)
        ELSE Ok(Put(api_keys, startupId,
                    [revenuecat_api_key |-> encryptedApiKey,
                     revenuecat_project_id |-> stored]))

-----------------------------------------------------------------------------
(* What the environment may send *)

K1 == <<"master-secret-1">>
K2 == <<"master-secret-2">>
S1 == <<"cron-secret-1">>

Salts == {Rnd("s1"), Rnd("s2")}
IVs == {Rnd("n1"), Rnd("n2")}

ProjectIdOf(i) == <<"p", "r", "j", "_", ToString(i)>>
ApiKeyOf(i) == <<"s", "k", "_", "l", "i", "v", "e", "_", "k", ToString(i)>>

Obj(name, m) == JsonObject(<<"{", name, ":">> \o m \o <<"}">>, [x \in {name} |-> m])

Responses ==
    { \* 200 with both metrics, the second "mrr" item is not the one found
      Http(200, <<"OK">>, JsonObject(<<"{", "metrics", "}">>,
            [metrics |-> <<[id |-> "revenue", value |-> 9],
                           [id |-> "mrr", value |-> 5],
                           [id |-> "mrr", value |-> 7]>>])),
      \* 200 with a body that is not JSON
      Http(200, <<"OK">>, NotJson(<<"<", "html", ">">>)),
      \* the invalid-credential signature, as JSON and as plain text
      Http(401, <<"Unauthorized">>, Obj("message", M_InvalidApiKeyDot)),
      Http(401, <<"Unauthorized">>, Obj("error", M_InvalidApiKey)),
      Http(401, <<"Unauthorized">>, NotJson(<<"Error", ":">> \o M_InvalidApiKey)),
      \* 401 with other bodies
      Http(401, <<"Unauthorized">>, Obj("message", <<"Session", "expired">>)),
      Http(401, <<"Unauthorized">>, Obj("message", JSON_NUMBER)),
      \* other statuses, one of them quoting the invalid-key text
      Http(429, <<"Too", "Many", "Requests">>, Obj("message", <<"Rate", "limited">>)),
      Http(500, <<"Internal", "Server", "Error">>, NotJson(M_InvalidApiKey)),
      NetworkError }

AuthHeaders ==
    { NULL,
      <<"Bearer", " ">> \o S1,
      S1,
      <<"Bearer", " ", "undefined">>,
      <<"Bearer", " ">>,
      <<"bearer", " ">> \o S1,
      <<"Bearer", " ">> \o S1 \o <<"x">> }

\* the answers the concurrent specification draws from
ResponsesCore ==
    { Http(200, <<"OK">>, JsonObject(<<"{", "metrics", "}">>,
            [metrics |-> <<[id |-> "revenue", value |-> 9], [id |-> "mrr", value |-> 5]>>])),
      Http(200, <<"OK">>, JsonObject(<<"{", "metrics", "}">>,
            [metrics |-> <<[id |-> "active_trials", value |-> 3]>>])),
      Http(401, <<"Unauthorized">>, Obj("message", M_InvalidApiKeyDot)),
      NetworkError }

\* metrics, or the invalid-credential signature
ResponsesOkInvalid ==
    { Http(200, <<"OK">>, JsonObject(<<"{", "metrics", "}">>,
            [metrics |-> <<[id |-> "revenue", value |-> 9], [id |-> "mrr", value |-> 5]>>])),
      Http(401, <<"Unauthorized">>, Obj("message", M_InvalidApiKeyDot)) }

\* the answers the overlapping cron requests draw from
ResponsesOverlap ==
    { Http(200, <<"OK">>, JsonObject(<<"{", "metrics", "}">>,
            [metrics |-> <<[id |-> "revenue", value |-> 9], [id |-> "mrr", value |-> 5]>>])),
      Http(200, <<"OK">>, JsonObject(<<"{", "metrics", "}">>,
            [metrics |-> <<[id |-> "active_trials", value |-> 3]>>])),
      Http(401, <<"Unauthorized">>, Obj("message", M_InvalidApiKeyDot)) }

ValidAuthHeaders == { <<"Bearer", " ">> \o S1 }

HeadersForwarded ==
    [forwardedFor |-> <<" ", "1.1.1.1", ",", "9.9.9.9">>, realIp |-> <<"2.2.2.2">>,
     cfIp |-> NULL]
HeadersRealIp == [forwardedFor |-> NULL, realIp |-> <<"2.2.2.2">>, cfIp |-> NULL]
HeadersNone == [forwardedFor |-> NULL, realIp |-> NULL, cfIp |-> NULL]

\* a well-formed submission for project k
ValidBody(k) ==
    [json |-> TRUE, name |-> <<"M", "R", "R">>, websiteUrl |-> <<"https:", "//", "example.com">>,
     appStoreId |-> UNDEFINED, founderUsername |-> UNDEFINED,
     revenuecatApiKey |-> ApiKeyOf(k), projectId |-> ProjectIdOf(k)]

BadJson ==
    [json |-> FALSE, name |-> UNDEFINED, websiteUrl |-> UNDEFINED, appStoreId |-> UNDEFINED,
     founderUsername |-> UNDEFINED, revenuecatApiKey |-> UNDEFINED, projectId |-> UNDEFINED]

Bodies ==
    { ValidBody(k) : k \in 1..MaxId } \cup
    { BadJson,
      [ValidBody(1) EXCEPT !.name = JSON_NUMBER],
      [ValidBody(1) EXCEPT !.name = <<"<b>", " ">>],
      [ValidBody(1) EXCEPT !.projectId = <<"p", "r", "j">>],
      [ValidBody(1) EXCEPT !.projectId = <<" ", "<b>">> \o ProjectIdOf(1) \o <<"\t">>],
      [ValidBody(1) EXCEPT !.revenuecatApiKey = <<"p", "k", "_">> \o ApiKeyOf(1)],
      [ValidBody(1) EXCEPT !.revenuecatApiKey = ApiKeyOf(1) \o <<" ">>],
      [ValidBody(1) EXCEPT !.websiteUrl = <<"http:", "//", "localhost">>],
      [ValidBody(1) EXCEPT !.websiteUrl = UNDEFINED],
      [ValidBody(1) EXCEPT !.websiteUrl = UNDEFINED, !.appStoreId = <<"1", "2", "3">>],
      [ValidBody(1) EXCEPT !.appStoreId = <<"x", "1">>],
      [ValidBody(1) EXCEPT !.founderUsername = <<"@", "b", "e", "n">>],
      [ValidBody(1) EXCEPT !.founderUsername = <<"b", " ", "e">>] }

Requests == { [headers |-> h, body |-> b] :
                h \in {HeadersForwarded, HeadersRealIp, HeadersNone}, b \in Bodies }

RequestsCore == { [headers |-> HeadersRealIp, body |-> ValidBody(k)] : k \in 1..2 }

\* all orderings of a finite set
Perms(S) == { f \in [1..Cardinality(S) -> S] : \A i, j \in DOMAIN f : i # j => f[i] # f[j] }

-----------------------------------------------------------------------------
(* pages/api/cron/update-metrics.ts: GET *)

M_ProjectIdMissing == <<"Project", "ID", "is", "missing">>

NoResponse == [status |-> 0]
Unauthorized == [status |-> 401, text |-> <<"Unauthorized">>]

EmptyResults == [success |-> 0, failed |-> 0, deleted |-> 0, errors |-> <<>>]

\* no adapter call is pending
NoAnswer == [net |-> FALSE, status |-> 0, statusText |-> <<>>, body |-> NotJson(<<"\\none">>)]

\* The fields after response are a log of the request: the header it
\* came with, the tables as the query of line 35 saw them, the entries
\* decryptApiKey was called for, what the adapter returned for each entry it
\* was called for, the answer behind the pending write or delete, and the
\* entries whose write or delete the datastore refused.
IdleRun ==
    [pc |-> "idle", list |-> <<>>, idx |-> 0, results |-> EmptyResults,
     metrics |-> [mrr |-> 0, revenue |-> 0], response |-> NoResponse,
     authHeader |-> NULL, snap |-> <<>>, decrypts |-> {}, outcome |-> EmptyMap,
     resp |-> NoAnswer, faults |-> {}, after |-> {}]

\* the report of lines 101-110 with nothing counted
ZeroReport ==
    [status |-> 200,
     body |-> [message |-> <<"Metrics", "update", "completed">>,
               success |-> 0, failed |-> 0, deleted |-> 0, errors |-> <<>>]]

\* lines 37-42
NoStartupsResponse ==
    [status |-> 200,
     body |-> [message |-> <<"No", "startups", "to", "update">>, updated |-> 0]]

\* the loop without the check of line 55
ProjectIdUnchecked(project_id) == FALSE

\* line 55
ProjectIdMissing(project_id) == Falsy(project_id)

\* the comparison of line 29 without the check of line 22
AuthorizedByHeaderAlone(authHeader) ==
    ~Falsy(authHeader) /\ authHeader = <<"Bearer", " ">> \o TemplateStr(env.CRON_SECRET)

\* lines 18-31: may the request proceed?
Authorized(authHeader) ==
    LET cronSecret == env.CRON_SECRET IN
    IF Falsy(cronSecret) THEN FALSE
    ELSE IF Falsy(authHeader) \/ authHeader # <<"Bearer", " ">> \o TemplateStr(cronSecret)
    THEN FALSE
    ELSE TRUE

\* the count without the error record
FailedUnrecorded(results, startup_id, message) ==
    [results EXCEPT !.failed = @ + 1]

\* lines 91-95 (and 56-60, 83-87)
Failed(results, startup_id, message) ==
    [results EXCEPT !.failed = @ + 1,
                    !.errors = Append(@, [startup_id |-> startup_id, error |-> message])]

\* the end of one loop iteration: the next entry, or the final response
NextEntry(rec, results) ==
    IF rec.idx + 1 > Len(rec.list)
    THEN [rec EXCEPT !.pc = "done", !.idx = @ + 1, !.results = results,
                     !.resp = NoAnswer,
                     !.response = [status |-> 200,
                                   body |-> [message |-> <<"Metrics", "update", "completed">>,
                                             success |-> results.success,
                                             failed |-> results.failed,
                                             deleted |-> results.deleted,
                                             errors |-> results.errors]]]
    ELSE [rec EXCEPT !.pc = "entry", !.idx = @ + 1, !.results = results,
                     !.resp = NoAnswer]

\* a catch block that takes whatever was thrown for an invalid key
IsAnyError(error) == ~error.ok

\* line 76
IsInvalidApiKeyError(error) == error.name = "InvalidApiKeyError"

\* a catch block that deletes the entry without looking at the error
CatchAndDelete(rec, error) == [rec EXCEPT !.pc = "delete"]

\* the loop without its own try/catch: the error reaches lines 111-120
CatchAndAbort(rec, error) ==
    IF IsInvalidApiKeyError(error)
    THEN [rec EXCEPT !.pc = "delete"]
    ELSE [rec EXCEPT !.pc = "done",
                     !.response =
                         [status |-> 500,
                          body |-> [error |-> <<"Failed", "to", "update", "metrics">>,
                                    message |-> error.message]]]

\* a catch block that counts the entry with the invalid key as failed and
\* goes on to delete it
CatchCountAndDelete(rec, error) ==
    IF IsInvalidApiKeyError(error)
    THEN [rec EXCEPT !.pc = "delete",
                     !.results = Failed(@, rec.list[rec.idx].startup_id, error.message)]
    ELSE NextEntry(rec, Failed(rec.results, rec.list[rec.idx].startup_id, error.message))

\* lines 74-98, up to the call of deleteStartup: what the catch block does
\* with an error thrown in the try block
Catch(rec, error) ==
    IF IsInvalidApiKeyError(error)
    THEN [rec EXCEPT !.pc = "delete"]
    ELSE NextEntry(rec, Failed(rec.results, rec.list[rec.idx].startup_id, error.message))

RunStart(r, authHeaders) ==
    /\ run[r].pc = "idle"
    /\ \E authHeader \in authHeaders :
          run' = [run EXCEPT ![r] =
                    IF Authorized(authHeader)
                    THEN [IdleRun EXCEPT !.pc = "load", !.authHeader = authHeader]
                    ELSE [IdleRun EXCEPT !.pc = "done", !.authHeader = authHeader,
                                         !.response = Unauthorized]]
    /\ UNCHANGED <<decisions, cipher, env, db, now, reg, rateLimitStore, requestCount>>

RunLoad(r) ==
    /\ run[r].pc = "load"
    /\ \E dbOk \in BOOLEAN, order \in Perms(DOMAIN api_keys) :
          LET q == getStartupsWithApiKeys(order, dbOk) IN
          run' = [run EXCEPT ![r] =
                    IF ~q.ok
                    THEN [@ EXCEPT !.pc = "done",
                                   !.response =
                                       [status |-> 500,
                                        body |-> [error |-> <<"Failed", "to", "update", "metrics">>,
                                                  message |-> q.message]]]
                    ELSE IF Len(q.value) = 0
                    THEN [@ EXCEPT !.pc = "done", !.response = NoStartupsResponse]
                    ELSE [@ EXCEPT !.pc = "entry", !.list = q.value, !.idx = 1,
                                   !.snap = <<startups, api_keys, revenue_metrics>>]]
    /\ UNCHANGED <<decisions, cipher, env, db, now, reg, rateLimitStore, requestCount>>

\* lines 52-68 and the catch for what they throw: the project id check, the

\* {id} when another invocation has already had its answer for this entry
FetchedElsewhere(r, id) ==
    IF \E q \in DOMAIN run : q # r /\ id \in DOMAIN run[q].outcome THEN {id} ELSE {}

\* decryption and the adapter call, up to the adapter's answer
RunEntry(r, responses) ==
    /\ run[r].pc = "entry"
    /\ \E resp \in responses :
          LET rec == run[r]
              row == rec.list[rec.idx]
              id == row.startup_id
          IN  run' = [run EXCEPT ![r] =
                IF ProjectIdMissing(row.project_id)
                THEN NextEntry(rec, Failed(rec.results, id, M_ProjectIdMissing))
                ELSE LET d == decryptApiKey(row.encrypted_api_key)
                         rec1 == [rec EXCEPT !.decrypts = @ \cup {id}]
                     IN  IF ~d.ok
                         THEN Catch(rec1, d)
                         ELSE LET f == fetchRevenueCatMetrics(d.value, row.project_id, resp)
                                  rec2 == [rec1 EXCEPT !.outcome = Put(@, id, f),
                                                       !.resp = resp,
                                                       !.after = @ \cup FetchedElsewhere(r, id)]
                              IN  IF f.ok
                                  THEN [rec2 EXCEPT !.pc = "write", !.metrics = f.value]
                                  ELSE Catch(rec2, f)]
    /\ UNCHANGED <<decisions, cipher, env, db, now, reg, rateLimitStore, requestCount>>

\* line 71 and lines 73-98
RunWrite(r) ==
    /\ run[r].pc = "write"
    /\ \E dbOk \in BOOLEAN :
          LET rec == run[r]
              id == rec.list[rec.idx].startup_id
              u == upsertRevenueMetrics(id, rec.metrics.revenue, rec.metrics.mrr, dbOk)
          IN  IF u.ok
              THEN /\ revenue_metrics' = u.value
                   /\ run' = [run EXCEPT ![r] =
                                NextEntry(rec, [rec.results EXCEPT !.success = @ + 1])]
              ELSE /\ revenue_metrics' = revenue_metrics
                   /\ run' = [run EXCEPT ![r] =
                                Catch([rec EXCEPT !.faults = @ \cup {id}], u)]
    /\ UNCHANGED <<decisions, cipher, env, startups, api_keys, nextStartupId, now, reg,
                   rateLimitStore, requestCount>>

\* a delete whose failure is not noticed: the entry is counted as removed
RunDeleteCountsRemoved(r) ==
    /\ run[r].pc = "delete"
    /\ \E dbOk \in BOOLEAN :
          LET rec == run[r]
              id == rec.list[rec.idx].startup_id
              x == deleteStartup(id, dbOk)
          IN  IF x.ok
              THEN /\ startups' = x.value.startups
                   /\ api_keys' = x.value.api_keys
                   /\ revenue_metrics' = x.value.revenue_metrics
                   /\ run' = [run EXCEPT ![r] =
                                NextEntry(rec, [rec.results EXCEPT !.deleted = @ + 1])]
              ELSE /\ UNCHANGED <<startups, api_keys, revenue_metrics>>
                   /\ run' = [run EXCEPT ![r] =
                                NextEntry([rec EXCEPT !.faults = @ \cup {id}],
                                          [rec.results EXCEPT !.deleted = @ + 1])]
    /\ UNCHANGED <<decisions, cipher, env, nextStartupId, now, reg, rateLimitStore, requestCount>>

\* lines 77-89
RunDelete(r) ==
    /\ run[r].pc = "delete"
    /\ \E dbOk \in BOOLEAN :
          LET rec == run[r]
              id == rec.list[rec.idx].startup_id
              x == deleteStartup(id, dbOk)
          IN  IF x.ok
              THEN /\ startups' = x.value.startups
                   /\ api_keys' = x.value.api_keys
                   /\ revenue_metrics' = x.value.revenue_metrics
                   /\ run' = [run EXCEPT ![r] =
                                NextEntry(rec, [rec.results EXCEPT !.deleted = @ + 1])]
              ELSE /\ UNCHANGED <<startups, api_keys, revenue_metrics>>
                   /\ run' = [run EXCEPT ![r] =
                                NextEntry([rec EXCEPT !.faults = @ \cup {id}],
                                          Failed(rec.results, id,
                                                 <<"Failed", "to", "delete", "startup", ":">>
                                                 \o x.message))]
    /\ UNCHANGED <<decisions, cipher, env, nextStartupId, now, reg, rateLimitStore, requestCount>>

\* the invocation ends and its writes are undone, as if the loop were one
\* transaction
RunKillRollback(r) ==
    /\ run[r].pc \in {"load", "entry", "write", "delete"}
    /\ run' = [run EXCEPT ![r] = [@ EXCEPT !.pc = "killed"]]
    /\ IF run[r].snap = <<>>
       THEN UNCHANGED <<startups, api_keys, revenue_metrics>>
       ELSE /\ startups' = run[r].snap[1]
            /\ api_keys' = run[r].snap[2]
            /\ revenue_metrics' = run[r].snap[3]
    /\ UNCHANGED <<decisions, cipher, env, nextStartupId, now, reg, rateLimitStore, requestCount>>

\* the host ends the invocation (its execution-time limit) while the handler
\* is at one of its awaits: the handler takes no further step, answers
\* nothing, and what it wrote stays written
RunKill(r) ==
    /\ run[r].pc \in {"load", "entry", "write", "delete"}
    /\ run' = [run EXCEPT ![r] = [@ EXCEPT !.pc = "killed"]]
    /\ UNCHANGED <<decisions, cipher, env, db, now, reg, rateLimitStore, requestCount>>

-----------------------------------------------------------------------------
(* pages/api/add-startup.ts: POST *)

M_Generic == <<"Failed", "to", "add", "startup", ".", "Please", "try", "again", ".">>

\* The fields after response are a log of the request: what the client
\* sent, and what RevenueCat answered to each call of the adapter.
IdleReg ==
    [pc |-> "idle", input |-> <<>>, startup |-> 0, token |-> <<>>,
     metrics |-> [mrr |-> 0, revenue |-> 0], response |-> NoResponse,
     request |-> <<>>, answers |-> <<>>]

Reply(rec, status, body) ==
    [rec EXCEPT !.pc = "done", !.response = [status |-> status, body |-> body]]

BadRequest(rec, error) == Reply(rec, 400, [error |-> error])

\* lines 212-228: the catch block of the handler
CatchPost(rec, error) ==
    LET errorMessage == error.message
        safeMessage == IF Includes(errorMessage, <<"API">>) THEN errorMessage ELSE M_Generic
    IN  Reply(rec, 500, [error |-> <<"Failed", "to", "add", "startup">>,
                         message |-> safeMessage])

\* lines 71-150: what the handler does with the parsed body, up to the call
\* of isProjectIdTaken
ValidateBody(rec, body) ==
    IF ~body.json THEN CatchPost(rec, Err("SyntaxError", M_JsonSyntax))
    ELSE
    LET nameValidation == validateName(body.name)
        projectIdValidation == validateProjectId(body.projectId)
        apiKeyValidation == validateApiKey(body.revenuecatApiKey)
        urlValidation == validateUrl(body.websiteUrl)
        appStoreIdValidation == validateAppStoreId(body.appStoreId)
        usernameValidation == validateUsername(body.founderUsername)
        validatedWebsiteUrl ==
            IF Falsy(body.websiteUrl) THEN NULL ELSE urlValidation.value
        validatedAppStoreId ==
            IF Falsy(body.appStoreId) THEN NULL ELSE appStoreIdValidation.value
        validatedUsername ==
            IF Falsy(body.founderUsername) THEN NULL ELSE usernameValidation.value
    IN  IF ~nameValidation.valid THEN BadRequest(rec, nameValidation.error)
        ELSE IF ~projectIdValidation.valid THEN BadRequest(rec, projectIdValidation.error)
        ELSE IF ~apiKeyValidation.valid THEN BadRequest(rec, apiKeyValidation.error)
        ELSE IF ~Falsy(body.websiteUrl) /\ ~urlValidation.valid
        THEN BadRequest(rec, <<"Website", ":">> \o urlValidation.error)
        ELSE IF ~Falsy(body.appStoreId) /\ ~appStoreIdValidation.valid
        THEN BadRequest(rec, <<"App", "Store", "ID", ":">> \o appStoreIdValidation.error)
        ELSE IF ~Falsy(body.founderUsername) /\ ~usernameValidation.valid
        THEN BadRequest(rec, <<"Twitter", "username", ":">> \o usernameValidation.error)
        ELSE IF Falsy(validatedAppStoreId) /\ Falsy(validatedWebsiteUrl)
        THEN BadRequest(rec, <<"Either", "App", "Store", "ID", "or", "Website", "is",
                               "required">>)
        ELSE [rec EXCEPT !.pc = "check",
                         !.input = [name |-> nameValidation.value,
                                    websiteUrl |-> validatedWebsiteUrl,
                                    founderUsername |-> validatedUsername,
                                    appStoreId |-> validatedAppStoreId,
                                    projectId |-> projectIdValidation.value,
                                    apiKey |-> apiKeyValidation.value]]

\* lines 57-150: rate limiting, parsing and validation
RegStart(g, requests) ==
    /\ reg[g].pc = "idle"
    /\ Len(decisions) < MaxRequests
    /\ \E request \in requests : \E at \in CleanupClock :
          LET clientId == getClientIdentifier(request.headers)
              rateLimit == checkRateLimit(clientId, RATE_MAX, RATE_WINDOW, at)
          IN  /\ rateLimitStore' = rateLimit.store
              /\ requestCount' = requestCount + 1
              /\ now' = at
              /\ decisions' = Append(decisions,
                    [id |-> clientId, at |-> now, allowed |-> rateLimit.allowed,
                     current |-> rateLimit.current, resetAt |-> rateLimit.resetAt])
              /\ reg' = [reg EXCEPT ![g] =
                    LET rec == [IdleReg EXCEPT !.request = request] IN
                    IF ~rateLimit.allowed
                    THEN Reply(rec, 429,
                               [error |-> <<"Too", "many", "requests">>,
                                retryAfter |-> rateLimit.retryAfter])
                    ELSE ValidateBody(rec, request.body)]
    /\ UNCHANGED <<cipher, env, db, run>>

\* the response has been sent: the request is over and the next one can arrive
RegForget(g) ==
    /\ reg[g].pc = "done"
    /\ reg' = [reg EXCEPT ![g] = IdleReg]
    /\ UNCHANGED <<decisions, cipher, env, db, now, run, rateLimitStore, requestCount>>

\* lines 157-162
RegCheck(g) ==
    /\ reg[g].pc = "check"
    /\ \E dbOk \in BOOLEAN :
          LET rec == reg[g]
              t == isProjectIdTaken(rec.input.projectId, dbOk)
          IN  reg' = [reg EXCEPT ![g] =
                IF ~t.ok THEN CatchPost(rec, t)
                ELSE IF t.value
                THEN Reply(rec, 409, [error |-> <<"This", "RevenueCat", "project", "ID", "is",
                                                  "already", "registered", ".">>])
                ELSE [rec EXCEPT !.pc = "validate"]]
    /\ UNCHANGED <<decisions, cipher, env, db, now, run, rateLimitStore, requestCount>>

\* lines 165-171
RegValidate(g, responses) ==
    /\ reg[g].pc = "validate"
    /\ \E resp \in responses :
          LET rec == [reg[g] EXCEPT !.answers = Append(@, resp)] IN
          reg' = [reg EXCEPT ![g] =
                IF validateRevenueCatApiKey(rec.input.apiKey, rec.input.projectId, resp)
                THEN [rec EXCEPT !.pc = "fetch"]
                ELSE BadRequest(rec, <<"Invalid", "RevenueCat", "API", "key", "or",
                                       "Project", "ID", ".">>)]
    /\ UNCHANGED <<decisions, cipher, env, db, now, run, rateLimitStore, requestCount>>

\* line 178
RegFetch(g, responses) ==
    /\ reg[g].pc = "fetch"
    /\ \E resp \in responses :
          LET rec == [reg[g] EXCEPT !.answers = Append(@, resp)]
              f == fetchRevenueCatMetrics(rec.input.apiKey, rec.input.projectId, resp)
          IN  reg' = [reg EXCEPT ![g] =
                IF f.ok THEN [rec EXCEPT !.pc = "create", !.metrics = f.value]
                ELSE CatchPost(rec, f)]
    /\ UNCHANGED <<decisions, cipher, env, db, now, run, rateLimitStore, requestCount>>

\* lines 181-189: the insert into startups, then the encryption
RegCreate(g, salts, ivs) ==
    /\ reg[g].pc = "create"
    /\ nextStartupId <= MaxId
    /\ \E dbOk \in BOOLEAN, salt \in salts, iv \in ivs :
          LET rec == reg[g]
              c == createStartup(rec.input.name, rec.input.websiteUrl,
                                 rec.input.founderUsername, rec.input.appStoreId, dbOk)
              e == encryptApiKey(rec.input.apiKey, salt, iv)
          IN  IF ~c.ok
              THEN /\ reg' = [reg EXCEPT ![g] = CatchPost(rec, c)]
                   /\ UNCHANGED <<startups, nextStartupId>>
              ELSE /\ startups' = Put(startups, c.value.id,
                                      [name |-> c.value.name,
                                       website_url |-> c.value.website_url,
                                       founder_username |-> c.value.founder_username,
                                       app_store_id |-> c.value.app_store_id])
                   /\ nextStartupId' = nextStartupId + 1
                   /\ reg' = [reg EXCEPT ![g] =
                        IF ~e.ok THEN CatchPost([rec EXCEPT !.startup = c.value.id], e)
                        ELSE [rec EXCEPT !.pc = "storekey", !.startup = c.value.id,
                                         !.token = e.value]]
    /\ UNCHANGED <<decisions, cipher, env, api_keys, revenue_metrics, now, run, rateLimitStore,
                   requestCount>>

\* line 190
RegStoreKey(g) ==
    /\ reg[g].pc = "storekey"
    /\ \E dbOk \in BOOLEAN :
          LET rec == reg[g]
              u == upsertApiKey(rec.startup, rec.token, rec.input.projectId, dbOk)
          IN  IF u.ok
              THEN /\ api_keys' = u.value
                   /\ reg' = [reg EXCEPT ![g] = [rec EXCEPT !.pc = "storemetrics"]]
              ELSE /\ api_keys' = api_keys
                   /\ reg' = [reg EXCEPT ![g] = CatchPost(rec, u)]
    /\ UNCHANGED <<decisions, cipher, env, startups, revenue_metrics, nextStartupId, now, run,
                   rateLimitStore, requestCount>>

\* lines 193-211
RegStoreMetrics(g) ==
    /\ reg[g].pc = "storemetrics"
    /\ \E dbOk \in BOOLEAN :
          LET rec == reg[g]
              u == upsertRevenueMetrics(rec.startup, rec.metrics.revenue, rec.metrics.mrr, dbOk)
          IN  IF u.ok
              THEN /\ revenue_metrics' = u.value
                   /\ reg' = [reg EXCEPT ![g] =
                        Reply(rec, 201, [success |-> TRUE,
                                         startup |-> [id |-> rec.startup,
                                                      name |-> rec.input.name],
                                         metrics |-> rec.metrics])]
              ELSE /\ revenue_metrics' = revenue_metrics
                   /\ reg' = [reg EXCEPT ![g] = CatchPost(rec, u)]
    /\ UNCHANGED <<decisions, cipher, env, startups, api_keys, nextStartupId, now, run,
                   rateLimitStore, requestCount>>

\* time passes, up to a given hour
TickUntil(last) ==
    /\ now < last
    /\ now' = now + 1
    /\ UNCHANGED <<decisions, cipher, env, db, run, reg, rateLimitStore, requestCount>>

Tick ==
    /\ now < MaxTime
    /\ now' = now + 1
    /\ UNCHANGED <<decisions, cipher, env, db, run, reg, rateLimitStore, requestCount>>


-----------------------------------------------------------------------------
(* lib/encryption.ts, used on its own: a plaintext is sealed under the     *)
(* master secret of the environment; the token may then be damaged where   *)
(* it is kept, and the process may be restarted under another master       *)
(* secret; at last the token is opened.                                    *)

MasterSecrets == {K1, K2}

Plaintexts ==
    { ApiKeyOf(1), ApiKeyOf(2), <<>>, <<"a", ":", "b">>, <<"k", LoneSurrogate, "1">> }

DamageKinds ==
    {"tag", "ciphertext", "salt", "iv", "tagNotHex", "ciphertextNotHex", "ivNotHex",
     "threeFields", "fiveFields", "noColon", "empty"}

\* what a token is after the damage: a field replaced by other hex digits
\* or by characters that are not hex digits, a field lost or added
Damage(kind, token) ==
    LET field(i, v) == SubSeq(token, 1, i - 1) \o <<v>> \o SubSeq(token, i + 1, Len(token))
    IN  CASE kind = "salt" -> field(1, Hex(Rnd("s0")))
          [] kind = "iv" -> field(3, Hex(Rnd("n0")))
          [] kind = "tag" -> field(5, Hex(Rnd("t0")))
          [] kind = "ciphertext" -> field(7, Hex(Rnd("c0")))
          [] kind = "ivNotHex" -> field(3, NotHex("zz"))
          [] kind = "tagNotHex" -> field(5, NotHex("zz"))
          [] kind = "ciphertextNotHex" -> field(7, NotHex("zz"))
          [] kind = "threeFields" -> SubSeq(token, 1, 5)
          [] kind = "fiveFields" -> token \o <<Colon, Hex(Rnd("x0"))>>
          [] kind = "noColon" -> <<NotHex("not a token")>>
          [] kind = "empty" -> <<>>

IdleCipher ==
    [pc |-> "idle", plaintext |-> <<>>, sealedUnder |-> UNDEFINED, token |-> <<>>,
     token2 |-> <<>>, damage |-> "none", result |-> Err("", <<>>)]

\* encryptApiKey(plaintext), with the salt and the iv randomBytes gives
CipherSeal(plaintexts, salts, ivs) ==
    /\ cipher.pc = "idle"
    /\ \E plaintext \in plaintexts, salt \in salts, iv \in ivs :
          LET e == encryptApiKey(plaintext, salt, iv) IN
          cipher' = IF e.ok
                    THEN [cipher EXCEPT !.pc = "sealed", !.plaintext = plaintext,
                                        !.sealedUnder = env.ENCRYPTION_KEY,
                                        !.token = e.value]
                    ELSE [cipher EXCEPT !.pc = "failed", !.plaintext = plaintext,
                                        !.result = e]
    /\ UNCHANGED <<decisions, env, db, now, run, reg, rateLimitStore, requestCount>>

\* a second call encryptApiKey(plaintext) in the same process: randomBytes is
\* a cryptographic generator, its output is a byte string no earlier call
\* returned
CipherSealAgain(salts, ivs) ==
    /\ cipher.pc = "sealed"
    /\ cipher.damage = "none"
    /\ cipher.token2 = <<>>
    /\ env.ENCRYPTION_KEY = cipher.sealedUnder
    /\ \E salt \in salts \ {FromHex(SubSeq(cipher.token, 1, 1))},
          iv \in ivs \ {FromHex(SubSeq(cipher.token, 3, 3))} :
          LET e == encryptApiKey(cipher.plaintext, salt, iv) IN
          /\ e.ok
          /\ cipher' = [cipher EXCEPT !.token2 = e.value]
    /\ UNCHANGED <<decisions, env, db, now, run, reg, rateLimitStore, requestCount>>

\* the stored token is changed before it is read back
CipherDamage(kinds) ==
    /\ cipher.pc = "sealed"
    /\ cipher.damage = "none"
    /\ \E kind \in kinds :
          cipher' = [cipher EXCEPT !.token = Damage(kind, @), !.damage = kind]
    /\ UNCHANGED <<decisions, env, db, now, run, reg, rateLimitStore, requestCount>>

\* the process is restarted with another value of ENCRYPTION_KEY
CipherRekey(keys) ==
    /\ cipher.pc = "sealed"
    /\ \E k \in keys \ {env.ENCRYPTION_KEY} :
          env' = [env EXCEPT !.ENCRYPTION_KEY = k]
    /\ UNCHANGED <<decisions, cipher, db, now, run, reg, rateLimitStore, requestCount>>

\* decryptApiKey(token)
CipherOpen ==
    /\ cipher.pc = "sealed"
    /\ cipher' = [cipher EXCEPT !.pc = "opened", !.result = decryptApiKey(cipher.token)]
    /\ UNCHANGED <<decisions, env, db, now, run, reg, rateLimitStore, requestCount>>

-----------------------------------------------------------------------------
(* Initial states: a store of up to NSeed registered entries, created      *)
(* under the master secret K1.  The schema allows a credential row without *)
(* a project id, and a stored token may have been damaged.                 *)

RunIds == {1, 2}
RegIds == {1, 2}

RowKinds == {"good", "nopid", "malformed", "tampered"}

SeedToken(i, kind) ==
    LET t == SealToken(K1, ApiKeyOf(i), Rnd("s1"), Rnd("n1"))
        other == SealToken(K1, ApiKeyOf(i + 1), Rnd("s1"), Rnd("n1"))
    IN  CASE kind = "malformed" -> SubSeq(t, 1, 4) \o SubSeq(t, 7, 7)
          [] kind = "tampered" -> SubSeq(t, 1, 4) \o SubSeq(other, 5, 5) \o SubSeq(t, 6, 7)
          [] OTHER -> t

\* at most one row is not a good one; the ids being labels, it is row 1
SeedKinds(n) ==
    { k \in [1..n -> RowKinds] : \A i \in 2..n : k[i] = "good" }

SeedStartup(i) ==
    [name |-> <<"App", ToString(i)>>, website_url |-> <<"https:", "//", "example.com">>,
     founder_username |-> NULL, app_store_id |-> NULL]

InitStore(n, kinds) ==
    /\ startups = [i \in 1..n |-> SeedStartup(i)]
    /\ api_keys = [i \in 1..n |->
                     [revenuecat_api_key |-> SeedToken(i, kinds[i]),
                      revenuecat_project_id |->
                          IF kinds[i] = "nopid" THEN NULL ELSE ProjectIdOf(i)]]
    /\ revenue_metrics = [i \in 1..n |->
                            [total_revenue |-> 1, mrr |-> 1, last_updated |-> 0]]
    /\ nextStartupId = n + 1


InitProcesses ==
    /\ now = 1
    /\ run = [r \in RunIds |-> IdleRun]
    /\ reg = [g \in RegIds |-> IdleReg]
    /\ rateLimitStore = EmptyMap
    /\ requestCount = 0
    /\ cipher = IdleCipher
    /\ decisions = <<>>

-----------------------------------------------------------------------------
(* Spec: a cron request and a registration, interleaved at their awaits *)

Init ==
    /\ env \in [ENCRYPTION_KEY : {K1, UNDEFINED}, CRON_SECRET : {S1}]
    /\ \E n \in 0..NSeedConc : \E kinds \in SeedKinds(n) : InitStore(n, kinds)
    /\ InitProcesses

RunStep(r, authHeaders, responses) ==
    \/ RunStart(r, authHeaders)
    \/ RunLoad(r)
    \/ RunEntry(r, responses)
    \/ RunWrite(r)
    \/ RunDelete(r)

RegStep(g, requests, responses, salts, ivs) ==
    \/ RegStart(g, requests)
    \/ RegCheck(g)
    \/ RegValidate(g, responses)
    \/ RegFetch(g, responses)
    \/ RegCreate(g, salts, ivs)
    \/ RegStoreKey(g)
    \/ RegStoreMetrics(g)

Next ==
    \/ RunStep(1, ValidAuthHeaders, ResponsesCore)
    \/ RegStep(1, RequestsCore, ResponsesCore, {Rnd("s2")}, {Rnd("n2")})

Spec == Init /\ [][Next]_vars

-----------------------------------------------------------------------------
(* SpecRefresh: one cron request over a store of up to NSeed entries, with *)
(* every answer, header and environment the model knows                    *)

InitRefresh ==
    /\ env \in [ENCRYPTION_KEY : {K1, K2, UNDEFINED}, CRON_SECRET : {S1, UNDEFINED, <<>>}]
    /\ \E n \in 0..NSeed : \E kinds \in SeedKinds(n) : InitStore(n, kinds)
    /\ InitProcesses

NextRefresh == RunStep(1, AuthHeaders, Responses)

SpecRefresh == InitRefresh /\ [][NextRefresh]_vars

-----------------------------------------------------------------------------
(* SpecOverlap: two cron requests that overlap (nothing in the handler     *)
(* keeps a second invocation from starting while the first is in its loop) *)
(* and a registration, interleaved at their awaits                         *)

InitOverlap ==
    /\ env = [ENCRYPTION_KEY |-> K1, CRON_SECRET |-> S1]
    /\ \E n \in 0..NSeedOverlap : InitStore(n, [i \in 1..n |-> "good"])
    /\ InitProcesses

NextOverlap ==
    \/ RunStep(1, ValidAuthHeaders, ResponsesOkInvalid)
    \/ RunStep(2, ValidAuthHeaders, ResponsesOkInvalid)
    \/ RegStep(1, RequestsCore, ResponsesOkInvalid, {Rnd("s2")}, {Rnd("n2")})

SpecOverlap == InitOverlap /\ [][NextOverlap]_vars

-----------------------------------------------------------------------------
(* SpecTwoRuns: two cron requests that overlap, and nothing else *)

NextTwoRuns ==
    \/ RunStep(1, ValidAuthHeaders, ResponsesOverlap)
    \/ RunStep(2, ValidAuthHeaders, ResponsesOverlap)

SpecTwoRuns == InitOverlap /\ [][NextTwoRuns]_vars

-----------------------------------------------------------------------------
(* SpecTwice: a cron request, and when it has answered a second one, to    *)
(* which RevenueCat gives for each entry the answer it gave to the first   *)

InitTwice ==
    /\ env = [ENCRYPTION_KEY |-> K1, CRON_SECRET |-> S1]
    /\ \E n \in 0..NSeedConc : \E kinds \in SeedKinds(n) : InitStore(n, kinds)
    /\ InitProcesses

\* the answers that give the second request, for the entry it is at, what
\* the first request got for that entry
SameAnswers(responses) ==
    IF run[2].pc # "entry" THEN responses
    ELSE LET row == run[2].list[run[2].idx] IN
         { resp \in responses :
              row.startup_id \in DOMAIN run[1].outcome
              => fetchRevenueCatMetrics(<<>>, row.project_id, resp)
                    = run[1].outcome[row.startup_id] }

NextTwice ==
    \/ RunStep(1, ValidAuthHeaders, ResponsesOverlap)
    \/ (run[1].pc = "done" /\ run[2].pc = "idle" /\ Tick)
    \/ (run[1].pc = "done" /\ RunStep(2, ValidAuthHeaders, SameAnswers(ResponsesOverlap)))

SpecTwice == InitTwice /\ [][NextTwice]_vars

-----------------------------------------------------------------------------
(* SpecKilled: a cron request that the host may end at any await, and the  *)
(* next scheduled one, which starts when the first is over                 *)

NextKilled ==
    \/ RunStep(1, ValidAuthHeaders, ResponsesOkInvalid)
    \/ RunKill(1)
    \/ (run[1].pc \in {"done", "killed"} /\ RunStep(2, ValidAuthHeaders, ResponsesOkInvalid))

SpecKilled == InitTwice /\ [][NextKilled]_vars

-----------------------------------------------------------------------------
(* SpecRegister: two registrations that overlap, interleaved at their      *)
(* awaits, over a store of up to NSeedConc registered entries              *)

InitRegister ==
    /\ env = [ENCRYPTION_KEY |-> K1, CRON_SECRET |-> S1]
    /\ \E n \in 0..NSeedConc : InitStore(n, [i \in 1..n |-> "good"])
    /\ InitProcesses

NextRegister ==
    \/ RegStep(1, RequestsCore, ResponsesCore, {Rnd("s2")}, {Rnd("n2")})
    \/ RegStep(2, RequestsCore, ResponsesCore, {Rnd("s3")}, {Rnd("n3")})

SpecRegister == InitRegister /\ [][NextRegister]_vars

-----------------------------------------------------------------------------
(* SpecCipher: the cipher on its own, over every plaintext, master secret, *)
(* salt, iv and damage the model knows                                     *)

InitCipher ==
    /\ env \in [ENCRYPTION_KEY : MasterSecrets \cup {UNDEFINED, <<>>}, CRON_SECRET : {S1}]
    /\ InitStore(0, <<>>)
    /\ InitProcesses

NextCipher ==
    \/ CipherSeal(Plaintexts, Salts, IVs)
    \/ CipherSealAgain(Salts, IVs)
    \/ CipherDamage(DamageKinds)
    \/ CipherRekey(MasterSecrets \cup {UNDEFINED})
    \/ CipherOpen

SpecCipher == InitCipher /\ [][NextCipher]_vars

-----------------------------------------------------------------------------
(* SpecLimit: one client after another at the add-startup endpoint, from   *)
(* two addresses, with submissions the handler turns down once it has      *)
(* read them, while the hours pass.  The process is either fresh or has    *)
(* served CLEANUP_INTERVAL - 4 requests of one address, long ago.          *)

RequestsLimit ==
    { [headers |-> h, body |-> b] :
        h \in {HeadersForwarded, HeadersRealIp},
        b \in {BadJson, [ValidBody(1) EXCEPT !.name = JSON_NUMBER]} }

\* the identifiers of the clients of RequestsLimit
ClientsLimit == { getClientIdentifier(q.headers) : q \in RequestsLimit }

\* what CLEANUP_INTERVAL - 4 requests of one address in one window leave
LongRunning ==
    [requestCount |-> CLEANUP_INTERVAL - 4,
     rateLimitStore |-> Put(EmptyMap, <<"2.2.2.2">>,
                            [count |-> CLEANUP_INTERVAL - 4, resetAt |-> 0])]

InitLimit ==
    /\ env = [ENCRYPTION_KEY |-> K1, CRON_SECRET |-> S1]
    /\ \E kinds \in SeedKinds(0) : InitStore(0, kinds)
    /\ now = 1
    /\ run = [r \in RunIds |-> IdleRun]
    /\ reg = [g \in RegIds |-> IdleReg]
    /\ cipher = IdleCipher
    /\ decisions = <<>>
    /\ \/ requestCount = 0 /\ rateLimitStore = EmptyMap
       \/ /\ requestCount = LongRunning.requestCount
          /\ rateLimitStore = LongRunning.rateLimitStore

NextLimit ==
    \/ RegStart(1, RequestsLimit)
    \/ RegForget(1)
    \/ TickUntil(MaxClock)

SpecLimit == InitLimit /\ [][NextLimit]_vars

-----------------------------------------------------------------------------
(* SpecAdd: one client's submissions to the add-startup endpoint, one      *)
(* after the other, good and bad, over a store of up to NSeedOverlap       *)
(* registered entries                                                      *)

RequestsAdd ==
    { [headers |-> HeadersRealIp, body |-> b] :
        b \in {ValidBody(1), ValidBody(2), BadJson,
               [ValidBody(1) EXCEPT !.name = JSON_NUMBER]} }

InitAdd ==
    /\ env = [ENCRYPTION_KEY |-> K1, CRON_SECRET |-> S1]
    /\ \E n \in 0..NSeedOverlap : InitStore(n, [i \in 1..n |-> "good"])
    /\ InitProcesses

NextAdd ==
    \/ RegStep(1, RequestsAdd, ResponsesCore, {Rnd("s2")}, {Rnd("n2")})
    \/ RegForget(1)

SpecAdd == InitAdd /\ [][NextAdd]_vars

-----------------------------------------------------------------------------
(* The vocabulary of the properties of a cron request *)

\* the entries of the list the request loaded
ListIds(rec) == { rec.list[i].startup_id : i \in 1..Len(rec.list) }

\* the positions of the list the loop is through with
Processed(rec) == { i \in 1..Len(rec.list) : i < rec.idx }

\* the positions of the error list that name the entry
ErrorsOf(rec, id) ==
    { i \in 1..Len(rec.results.errors) : rec.results.errors[i].startup_id = id }

\* the entries by what the adapter returned for them
AdapterOk(rec) == { id \in DOMAIN rec.outcome : rec.outcome[id].ok }
AdapterInvalid(rec) ==
    { id \in DOMAIN rec.outcome :
        ~rec.outcome[id].ok /\ rec.outcome[id].name = "InvalidApiKeyError" }
AdapterOther(rec) ==
    { id \in DOMAIN rec.outcome :
        ~rec.outcome[id].ok /\ rec.outcome[id].name # "InvalidApiKeyError" }

\* the entry's three rows are there and are what they were when the list was loaded
Untouched(rec, id) ==
    /\ id \in DOMAIN startups /\ startups[id] = rec.snap[1][id]
    /\ id \in DOMAIN api_keys /\ api_keys[id] = rec.snap[2][id]
    /\ id \in DOMAIN revenue_metrics /\ revenue_metrics[id] = rec.snap[3][id]

\* none of the entry's three rows is there
Gone(id) ==
    /\ id \notin DOMAIN startups
    /\ id \notin DOMAIN api_keys
    /\ id \notin DOMAIN revenue_metrics

\* this step removes one of the entry's rows
Removed(id) ==
    \/ id \in DOMAIN startups /\ id \notin DOMAIN startups'
    \/ id \in DOMAIN api_keys /\ id \notin DOMAIN api_keys'
    \/ id \in DOMAIN revenue_metrics /\ id \notin DOMAIN revenue_metrics'

AllIds == DOMAIN startups \cup DOMAIN api_keys \cup DOMAIN revenue_metrics

\* the request ended with the report of lines 101-110
Reported(rec) ==
    /\ rec.pc = "done"
    /\ rec.response.status = 200
    /\ DOMAIN rec.response.body = {"message", "success", "failed", "deleted", "errors"}

-----------------------------------------------------------------------------
\* C1: a step removes a row of an entry only if it is the delete of a cron
\* request whose adapter call for that entry, in that request, threw
\* InvalidApiKeyError; no step of the registration, and no step after a
\* decrypt failure, a missing project id, another adapter failure or a
\* datastore failure, removes one.
C1_DeletedOnlyOnInvalidApiKey ==
    [][\A id \in AllIds :
          Removed(id) =>
             \E r \in RunIds :
                /\ run[r].pc = "delete"
                /\ run[r].list[run[r].idx].startup_id = id
                /\ id \in AdapterInvalid(run[r])
                /\ run'[r].results.deleted = run[r].results.deleted + 1
                /\ reg' = reg]_vars

\* a request has deleted an entry for which the adapter threw InvalidApiKeyError,
\* next to a registration that has got as far as its insert
C1_Witness ==
    /\ run[1].pc = "done"
    /\ run[1].results.deleted = 1
    /\ \E id \in AdapterInvalid(run[1]) : Gone(id)
    /\ reg[1].startup # 0

-----------------------------------------------------------------------------
\* C2: when a request that loaded a list ends, then, the datastore having
\* accepted the write or the delete for the entry spoken of: every entry
\* the adapter answered for has the fetched values in its metrics row and
\* success counts these entries; every entry the adapter threw
\* InvalidApiKeyError for has none of its three rows left and deleted
\* counts these entries; every entry the adapter threw another error for
\* has its three rows as they were and one error naming it, with the
\* adapter's message; failed counts all the other entries of the list, one
\* error each.  The order of the list is the datastore's choice.
C2_OkInvalidTransient ==
    LET rec == run[1]
        body == rec.response.body
        A == AdapterOk(rec) \ rec.faults
        B == AdapterInvalid(rec) \ rec.faults
        C == AdapterOther(rec)
    IN  (rec.pc = "done" /\ rec.list # <<>>) =>
           /\ Reported(rec)
           /\ \A id \in A :
                 /\ id \in DOMAIN revenue_metrics
                 /\ revenue_metrics[id].total_revenue = rec.outcome[id].value.revenue
                 /\ revenue_metrics[id].mrr = rec.outcome[id].value.mrr
                 /\ revenue_metrics[id].last_updated = now
                 /\ startups[id] = rec.snap[1][id]
                 /\ api_keys[id] = rec.snap[2][id]
                 /\ ErrorsOf(rec, id) = {}
           /\ body.success = Cardinality(A)
           /\ \A id \in B : Gone(id) /\ ErrorsOf(rec, id) = {}
           /\ body.deleted = Cardinality(B)
           /\ \A id \in C :
                 /\ Untouched(rec, id)
                 /\ \E i \in 1..Len(body.errors) :
                       /\ ErrorsOf(rec, id) = {i}
                       /\ body.errors[i].error = rec.outcome[id].message
           /\ body.failed = Cardinality(ListIds(rec) \ (A \cup B))
           /\ body.failed = Len(body.errors)

\* three entries, the first of the list the one with the invalid key, the
\* second the one with the transient failure, the third the one refreshed
C2_Witness ==
    LET rec == run[1] IN
    /\ rec.pc = "done" /\ Len(rec.list) = 3 /\ rec.faults = {}
    /\ rec.list[1].startup_id \in AdapterInvalid(rec)
    /\ rec.list[2].startup_id \in AdapterOther(rec)
    /\ rec.list[3].startup_id \in AdapterOk(rec)
    /\ rec.list[1].startup_id > rec.list[3].startup_id
    /\ rec.response.body.success = 1
    /\ rec.response.body.deleted = 1
    /\ rec.response.body.failed = 1

-----------------------------------------------------------------------------
\* C3: for every entry the loop is through with and whose stored token
\* decryptApiKey was called on and rejects (format, tag, wrong or missing
\* ENCRYPTION_KEY): the adapter was not called for it, exactly one error
\* names it and carries the decryption message, failed counts the errors,
\* and its three rows are as they were.
C3_DecryptFailureIsFailed ==
    LET rec == run[1] IN
    \A i \in Processed(rec) :
       LET row == rec.list[i]
           id == row.startup_id
           d == decryptApiKey(row.encrypted_api_key)
       IN  (id \in rec.decrypts /\ ~d.ok) =>
              /\ id \notin DOMAIN rec.outcome
              /\ \E k \in 1..Len(rec.results.errors) :
                    /\ ErrorsOf(rec, id) = {k}
                    /\ rec.results.errors[k].error = d.message
                    /\ SubSeq(d.message, 1, Len(M_DecryptPrefix)) = M_DecryptPrefix
              /\ rec.results.failed = Len(rec.results.errors)
              /\ rec.results.failed >= 1
              /\ Untouched(rec, id)

\* a request has ended whose first entry's tag did not verify under the
\* right key, and whose second entry was refreshed
C3_Witness ==
    LET rec == run[1] IN
    /\ rec.pc = "done" /\ Len(rec.list) >= 2 /\ env.ENCRYPTION_KEY = K1
    /\ rec.list[1].startup_id \in rec.decrypts
    /\ decryptApiKey(rec.list[1].encrypted_api_key) = Err("Error", M_DecryptPrefix \o M_AuthFail)
    /\ rec.results.success >= 1

-----------------------------------------------------------------------------
\* how far a request has got
Rank(rec) ==
    CASE rec.pc = "idle" -> 0
      [] rec.pc = "load" -> 1
      [] rec.pc = "entry" -> 3 * rec.idx
      [] rec.pc \in {"write", "delete"} -> 3 * rec.idx + 1
      [] rec.pc = "done" -> 3 * (Len(rec.list) + 2)

\* C4: every step of a request takes it forward (from the header check to
\* the query, from an entry to its write or delete or to the next entry,
\* from the last entry to the answer), whatever failed in the step; while
\* it is in the loop the current entry is one of the list and every entry
\* before it is accounted for in exactly one of the three counts; and when
\* a request that loaded a list ends, it has gone through the whole list
\* and answers 200 with the report, whose counts add up to the length of
\* the list.
C4_BatchNeverAborts ==
    [][LET rec == run'[1]
           done == rec.results.success + rec.results.failed + rec.results.deleted
       IN  /\ Rank(rec) > Rank(run[1])
           /\ rec.pc \in {"entry", "write", "delete"} =>
                 /\ rec.idx \in 1..Len(rec.list)
                 /\ done = rec.idx - 1
           /\ (rec.pc = "done" /\ rec.list # <<>>) =>
                 /\ rec.idx = Len(rec.list) + 1
                 /\ done = Len(rec.list)
                 /\ Reported(rec)
                 /\ rec.response.body.success = rec.results.success
                 /\ rec.response.body.failed = rec.results.failed
                 /\ rec.response.body.deleted = rec.results.deleted
                 /\ rec.response.body.errors = rec.results.errors
                 /\ \A id \in ListIds(rec) : Cardinality(ErrorsOf(rec, id)) <= 1]_vars

\* a request over three entries has ended: the first failed in the datastore
\* (the write or the delete), the second elsewhere, and the third was
\* still refreshed
C4_Witness ==
    LET rec == run[1] IN
    /\ Reported(rec) /\ Len(rec.list) = 3
    /\ rec.list[1].startup_id \in rec.faults
    /\ ErrorsOf(rec, rec.list[2].startup_id) # {}
    /\ rec.list[2].startup_id \notin rec.faults
    /\ rec.list[3].startup_id \in AdapterOk(rec)
    /\ rec.response.body.success = 1
    /\ rec.response.body.failed = 2

-----------------------------------------------------------------------------
\* the ids of S in ascending order
RECURSIVE Ascending(_)
Ascending(S) ==
    IF S = {} THEN <<>>
    ELSE LET m == CHOOSE x \in S : \A y \in S : x <= y
         IN  <<m>> \o Ascending(S \ {m})

\* C5: for every entry the loop is through with and for which the adapter
\* threw something other than InvalidApiKeyError, or answered and the
\* metrics write was refused: exactly one error names it, with the message
\* of what was thrown; failed counts the errors; its three rows are as they
\* were when the list was loaded; and the query of the next request
\* returns its row again (the order of the rows it returns does not
\* matter to that; the formula takes them by ascending id).
C5_OtherFailureLeavesEntry ==
    LET rec == run[1] IN
    \A i \in Processed(rec) :
       LET row == rec.list[i]
           id == row.startup_id
       IN  (id \in AdapterOther(rec) \/ (id \in AdapterOk(rec) /\ id \in rec.faults)) =>
              /\ \E k \in 1..Len(rec.results.errors) :
                    /\ ErrorsOf(rec, id) = {k}
                    /\ id \in AdapterOther(rec) =>
                          rec.results.errors[k].error = rec.outcome[id].message
                    /\ id \in AdapterOk(rec) =>
                          rec.results.errors[k].error =
                             upsertRevenueMetrics(id, 0, 0, FALSE).message
              /\ rec.results.failed = Len(rec.results.errors)
              /\ Untouched(rec, id)
              /\ LET next == getStartupsWithApiKeys(Ascending(DOMAIN api_keys), TRUE).value
                 IN  \E j \in 1..Len(next) : next[j] = row

\* a request has ended in which the network failed for one entry and the
\* metrics write was refused for another
C5_Witness ==
    LET rec == run[1] IN
    /\ rec.pc = "done"
    /\ \E id \in AdapterOther(rec) : rec.outcome[id] = Err("TypeError", M_FetchFailed)
    /\ \E id \in AdapterOk(rec) : id \in rec.faults /\ Untouched(rec, id)
    /\ rec.results.failed = 2

-----------------------------------------------------------------------------
\* the answer has status 401 and its body has the text 'Invalid API key'
SaysInvalidApiKey(resp) ==
    /\ resp.net
    /\ resp.status = 401
    /\ Includes(resp.body.text, M_InvalidApiKey)

\* C6: a cron request is about to delete an entry, and a step removes a row
\* of an entry, only when the answer the adapter got for that entry had
\* status 401 and a body with the text 'Invalid API key': never after a 401
\* with another body, a 429, a 5xx, a network error or a 2xx that does not
\* parse.
C6_OnlyTheSignatureRemoves ==
    [][/\ run[1].pc = "delete" => SaysInvalidApiKey(run[1].resp)
       /\ \A id \in AllIds :
             Removed(id) =>
                /\ run[1].pc = "delete"
                /\ run[1].list[run[1].idx].startup_id = id
                /\ SaysInvalidApiKey(run[1].resp)]_vars

\* a request has ended in which one entry got a 500 whose body quotes the
\* invalid-key text and another a 401 with another message; both are there
C6_Witness ==
    LET rec == run[1] IN
    /\ rec.pc = "done"
    /\ \E id \in AdapterOther(rec) :
          /\ rec.outcome[id].message =
                <<"RevenueCat", "API", "error", ":", "500", "Internal", "Server", "Error", ".">>
                \o M_InvalidApiKey
          /\ Untouched(rec, id)
    /\ \E id \in AdapterOther(rec) :
          /\ Len(rec.outcome[id].message) >= 6
          /\ SubSeq(rec.outcome[id].message, 1, 6) =
                <<"RevenueCat", "API", "error", ":", "401", "Unauthorized">>
          /\ Untouched(rec, id)

-----------------------------------------------------------------------------
\* C7: for every entry the loop is through with and whose row has no project
\* id: decryptApiKey was not called for it, the adapter was not called for
\* it, exactly one error names it and reads 'Project ID is missing', failed
\* counts the errors, and its three rows are as they were.
C7_MissingProjectIdSkipped ==
    LET rec == run[1] IN
    \A i \in Processed(rec) :
       LET row == rec.list[i]
           id == row.startup_id
       IN  row.project_id \in {NULL, UNDEFINED, <<>>} =>
              /\ id \notin rec.decrypts
              /\ id \notin DOMAIN rec.outcome
              /\ \E k \in 1..Len(rec.results.errors) :
                    /\ ErrorsOf(rec, id) = {k}
                    /\ rec.results.errors[k] =
                          [startup_id |-> id, error |-> <<"Project", "ID", "is", "missing">>]
              /\ rec.results.failed = Len(rec.results.errors)
              /\ Untouched(rec, id)

\* a request has ended whose list had an entry without project id and an
\* entry that was refreshed
C7_Witness ==
    LET rec == run[1] IN
    /\ rec.pc = "done"
    /\ \E i \in 1..Len(rec.list) : rec.list[i].project_id = NULL
    /\ rec.results.success >= 1
    /\ rec.results.failed = 1

-----------------------------------------------------------------------------
\* C8, as the spec states it: a request that found no entry answers with the
\* report of any other request, all counts at zero and no error.
C8_EmptyRunReportsZeros ==
    LET rec == run[1] IN
    (rec.pc = "done" /\ rec.response.status = 200 /\ rec.list = <<>>) =>
       /\ Reported(rec)
       /\ rec.response.body.success = 0
       /\ rec.response.body.failed = 0
       /\ rec.response.body.deleted = 0
       /\ rec.response.body.errors = <<>>

\* C8, as the code has it: a request that found no entry answers 200 with
\* the message 'No startups to update' and updated = 0, a body without the
\* three counts and without the error list; a request that found entries
\* answers with the report.  Neither the one nor the other changes a row
\* when nothing was there to load.
C8_EmptyRunAnswersNoStartups ==
    LET rec == run[1] IN
    /\ (rec.pc = "done" /\ rec.response.status = 200 /\ rec.list = <<>>) =>
          /\ rec.response.body =
                [message |-> <<"No", "startups", "to", "update">>, updated |-> 0]
          /\ DOMAIN rec.response.body \cap {"success", "failed", "deleted", "errors"} = {}
          /\ rec.results = EmptyResults
          /\ AllIds = {}
    /\ (rec.pc = "done" /\ rec.response.status = 200 /\ rec.list # <<>>) => Reported(rec)

\* an authorized request over an empty store has ended with 200
C8_Witness ==
    /\ run[1].pc = "done"
    /\ run[1].response.status = 200
    /\ run[1].list = <<>>
    /\ run[1].authHeader = <<"Bearer", " ">> \o S1
    /\ api_keys = EmptyMap

-----------------------------------------------------------------------------
\* the header is 'Bearer ' followed by the configured secret
ExpectedHeader(h) ==
    /\ env.CRON_SECRET \notin {UNDEFINED, NULL, <<>>}
    /\ h = <<"Bearer", " ">> \o env.CRON_SECRET

Rejected(rec) == rec.pc # "idle" /\ ~ExpectedHeader(rec.authHeader)

\* C9: a request whose header is not 'Bearer ' followed by a configured,
\* non-empty CRON_SECRET is answered 401 at once: it has loaded no list,
\* called neither decryptApiKey nor the adapter, counted nothing, and no
\* step taken while it is there changes a table.
C9_TriggerFailsClosed ==
    [][/\ Rejected(run'[1]) =>
             /\ run'[1].pc = "done"
             /\ run'[1].response = [status |-> 401, text |-> <<"Unauthorized">>]
             /\ run'[1].list = <<>>
             /\ run'[1].snap = <<>>
             /\ run'[1].decrypts = {}
             /\ run'[1].outcome = EmptyMap
             /\ run'[1].resp = NoAnswer
             /\ run'[1].results = EmptyResults
       /\ (Rejected(run[1]) \/ Rejected(run'[1])) =>
             /\ startups' = startups
             /\ api_keys' = api_keys
             /\ revenue_metrics' = revenue_metrics]_vars

\* with no CRON_SECRET configured, the request with the header
\* 'Bearer undefined' has been answered 401 over a store with entries
C9_Witness ==
    /\ env.CRON_SECRET = UNDEFINED
    /\ run[1].pc = "done"
    /\ run[1].authHeader = <<"Bearer", " ", "undefined">>
    /\ run[1].response.status = 401
    /\ api_keys # EmptyMap

-----------------------------------------------------------------------------
\* C10, as the spec states it: without ENCRYPTION_KEY a cron request goes
\* through no entry and reports no per-entry outcome, and a registration
\* inserts no row.
C10_NoMasterSecretNoStart ==
    Falsy(env.ENCRYPTION_KEY) =>
       /\ \A r \in RunIds :
             /\ run[r].results = EmptyResults
             /\ run[r].decrypts = {}
             /\ ~Reported(run[r])
       /\ \A g \in RegIds : reg[g].startup = 0
       /\ DOMAIN startups = DOMAIN api_keys
       /\ DOMAIN startups = DOMAIN revenue_metrics

-----------------------------------------------------------------------------
\* C11: in every state reached by two overlapping cron requests and a
\* registration, every api_keys row and every revenue_metrics row belongs
\* to a startups row that is there: the delete takes the three rows in one
\* step, and no later write puts one back, not even the metrics upsert of
\* a request that loaded its list before the delete.
C11_NoOrphanRecords ==
    /\ DOMAIN api_keys \subseteq DOMAIN startups
    /\ DOMAIN revenue_metrics \subseteq DOMAIN startups

\* one request has deleted an entry; the other, which had loaded it and got
\* metrics for it, was refused the upsert and counted it as failed
C11_Witness ==
    \E r, q \in RunIds, id \in ListIds(run[1]) \cap ListIds(run[2]) :
       /\ r # q
       /\ run[r].pc = "done" /\ run[q].pc = "done"
       /\ id \in AdapterInvalid(run[r]) /\ run[r].results.deleted >= 1
       /\ id \in AdapterOk(run[q]) /\ id \in run[q].faults
       /\ \E k \in ErrorsOf(run[q], id) :
             run[q].results.errors[k].error =
                <<"Failed", "to", "upsert", "revenue", "metrics", ":">> \o M_ForeignKey
       /\ Gone(id)

\* C12, as the spec states it: once a registration has answered, with 201
\* or with an error, the startups row it inserted (if the row is still
\* there) has its api_keys row and its revenue_metrics row.
C12_CompletedRegistrationHasBothRecords ==
    \A g \in RegIds :
       (/\ reg[g].pc = "done"
        /\ reg[g].startup # 0
        /\ reg[g].startup \in DOMAIN startups)
       => /\ reg[g].startup \in DOMAIN api_keys
          /\ reg[g].startup \in DOMAIN revenue_metrics

\* the project id of the registration is the project id of a credential row
Registered(projectId) ==
    \E id \in DOMAIN api_keys : api_keys[id].revenuecat_project_id = projectId

\* C13: a registration whose project id is already that of a credential row
\* is turned away at the uniqueness check, before createStartup and before
\* encryptApiKey: up to the check it has inserted no row and holds no token;
\* the check answers 409 (500 when the query itself fails), leaves the three
\* tables as they are, and the request ends with no startup id and no token.
\* Credential rows stay while registrations alone are running, so a project
\* id registered when the request arrives is still registered at the check.
C13_TakenProjectIdRejectedBeforeStorage ==
    [][ /\ \A id \in DOMAIN api_keys :
              id \in DOMAIN api_keys' /\ api_keys'[id] = api_keys[id]
        /\ \A g \in RegIds :
              /\ reg'[g].pc \in {"idle", "check"}
                 => reg'[g].startup = 0 /\ reg'[g].token = <<>>
              /\ (reg[g].pc = "check" /\ Registered(reg[g].input.projectId)
                  /\ reg'[g] # reg[g])
                 => /\ reg'[g].pc = "done"
                    /\ reg'[g].response.status \in {409, 500}
                    /\ reg'[g].startup = 0
                    /\ reg'[g].token = <<>>
                    /\ db' = db ]_vars

C13_Witness ==
    \E g \in RegIds :
       /\ reg[g].pc = "done"
       /\ reg[g].response.status = 409
       /\ Registered(reg[g].input.projectId)
       /\ reg[g].startup = 0
       /\ reg[g].token = <<>>

\* C14: in every state reached by two overlapping registrations, no two
\* api_keys rows carry the same revenuecat_project_id (rows without a project
\* id are outside the partial index and outside the claim).
C14_ProjectIdUnique ==
    \A i, j \in DOMAIN api_keys :
       (/\ i # j
        /\ api_keys[i].revenuecat_project_id # NULL)
       => api_keys[i].revenuecat_project_id # api_keys[j].revenuecat_project_id

\* two registrations for one project id both reached the credential upsert;
\* one row was stored, the other upsert was refused by the unique index
C14_Witness ==
    \E g, h \in RegIds :
       /\ g # h
       /\ reg[g].input # <<>> /\ reg[h].input # <<>>
       /\ reg[g].input.projectId = reg[h].input.projectId
       /\ reg[g].startup \in DOMAIN api_keys
       /\ reg[h].pc = "done"
       /\ reg[h].startup # 0
       /\ reg[h].response.status = 500
       /\ reg[h].response.body.message =
             <<"Failed", "to", "upsert", "API", "key", ":">> \o M_UniqueProjectId

\* C15: the uniqueness check reads the stored credential rows and nothing
\* else: a registration whose project id is in no api_keys row passes the
\* check (unless the query fails), also while another registration for the
\* same project id is between its own check and its credential write.  Two
\* overlapping registrations for one project id can therefore both go on to
\* validateRevenueCatApiKey and to createStartup (the witness).
C15_CheckNotAtomicWithWrites ==
    [][ \A g \in RegIds :
           (/\ reg[g].pc = "check"
            /\ reg'[g] # reg[g]
            /\ reg'[g].response.status # 500)
           => IF Registered(reg[g].input.projectId)
              THEN reg'[g].pc = "done" /\ reg'[g].response.status = 409
              ELSE reg'[g].pc = "validate" ]_vars

\* both registrations are for one project id, both passed the check, and each
\* inserted a startups row
C15_Witness ==
    /\ reg[1].input # <<>> /\ reg[2].input # <<>>
    /\ reg[1].input.projectId = reg[2].input.projectId
    /\ reg[1].startup # 0 /\ reg[2].startup # 0
    /\ reg[1].startup # reg[2].startup
    /\ {reg[1].startup, reg[2].startup} \subseteq DOMAIN startups

\* C16: nothing orders the writes of two overlapping cron requests: whenever
\* a request's upsert of the metrics it fetched goes through, the
\* revenue_metrics row holds exactly those metrics afterwards, whether or not
\* the other request fetched the same entry before or after it.  Both
\* requests can therefore fetch one entry, and the row can end up holding
\* the metrics of the earlier fetch (the witness).
C16_LastWriteWins ==
    [][ \A r \in RunIds :
           (run[r].pc = "write" /\ run'[r] # run[r])
           => LET id == run[r].list[run[r].idx].startup_id IN
              \/ /\ id \in run'[r].faults
                 /\ revenue_metrics' = revenue_metrics
              \/ /\ id \notin run'[r].faults
                 /\ id \in DOMAIN revenue_metrics'
                 /\ revenue_metrics'[id].mrr = run[r].metrics.mrr
                 /\ revenue_metrics'[id].total_revenue = run[r].metrics.revenue ]_vars

\* both requests had an answer for one entry, with different metrics, and
\* both wrote; the row holds the metrics of the request that fetched first
C16_Witness ==
    \E r, q \in RunIds, id \in DOMAIN revenue_metrics :
       /\ r # q
       /\ run[r].pc = "done" /\ run[q].pc = "done"
       /\ id \in AdapterOk(run[r]) /\ id \in AdapterOk(run[q])
       /\ id \notin run[r].faults /\ id \notin run[q].faults
       /\ id \in run[q].after /\ id \notin run[r].after
       /\ run[r].outcome[id].value # run[q].outcome[id].value
       /\ revenue_metrics[id].mrr = run[r].outcome[id].value.mrr
       /\ revenue_metrics[id].total_revenue = run[r].outcome[id].value.revenue

\* the text of a datastore error or of the configuration error
InternalDetail(message) ==
    \/ Includes(message, M_DbError)
    \/ Includes(message, M_UniqueProjectId)
    \/ Includes(message, M_ForeignKey)
    \/ Includes(message, M_NoKey)

\* C17, as the spec states it: the 500 answer of a registration that failed
\* carries no text of the exception that made it fail.
C17_NoInternalDetailInResponse ==
    \A g \in RegIds :
       (reg[g].pc = "done" /\ reg[g].response.status = 500)
       => ~InternalDetail(reg[g].response.body.message)

\* the token is the one encryptApiKey returned, opened under the master
\* secret it was sealed under
OpenedIntact ==
    /\ cipher.pc = "opened"
    /\ cipher.damage = "none"
    /\ env.ENCRYPTION_KEY = cipher.sealedUnder

\* C18, as the spec states it: decryptApiKey(encryptApiKey(P)) is P, for every
\* plaintext, master secret, salt and iv.
C18_RoundTrip ==
    OpenedIntact => cipher.result = Ok(cipher.plaintext)

\* C18, amended: decryptApiKey(encryptApiKey(P)) succeeds for every plaintext,
\* master secret, salt and iv, and returns P character by character, except
\* that an unpaired surrogate code unit of P comes back as U+FFFD; so it
\* returns P whenever P is well-formed Unicode.
C18_RoundTripWellFormed ==
    OpenedIntact
    => /\ cipher.result.ok
       /\ Len(cipher.result.value) = Len(cipher.plaintext)
       /\ \A i \in 1..Len(cipher.plaintext) :
             cipher.result.value[i] =
                IF cipher.plaintext[i] = LoneSurrogate THEN ReplacementChar
                ELSE cipher.plaintext[i]
       /\ (\A i \in 1..Len(cipher.plaintext) : cipher.plaintext[i] # LoneSurrogate)
          => cipher.result = Ok(cipher.plaintext)

C18_Witness ==
    /\ OpenedIntact
    /\ cipher.plaintext = ApiKeyOf(2)
    /\ cipher.sealedUnder = K2
    /\ cipher.result = Ok(ApiKeyOf(2))

\* the failure decryptApiKey reports when AES-GCM does not authenticate
AuthenticationFailure == Err("Error", M_DecryptPrefix \o M_AuthFail)

\* the failure decryptApiKey reports when the token has not four fields
MalformedFailure == Err("Error", M_DecryptPrefix \o M_BadFormat)

NotFourFields == cipher.damage \in {"threeFields", "fiveFields", "noColon", "empty"}

\* C20: decryptApiKey of a string that has not exactly four fields between
\* colons throws 'Failed to decrypt API key: Invalid encrypted API key
\* format', which is not the authentication failure, and it does so whatever
\* ENCRYPTION_KEY is, set or not: the field count is checked before the
\* master secret is read and the key derived.
C20_MalformedTokenFailsBeforeKeyDerivation ==
    /\ MalformedFailure # AuthenticationFailure
    /\ (cipher.pc = "opened" /\ NotFourFields)
       => /\ Len(Split(cipher.token)) # 4
          /\ cipher.result = MalformedFailure

\* three fields, opened with no ENCRYPTION_KEY in the environment
C20_Witness ==
    /\ cipher.pc = "opened"
    /\ cipher.damage = "threeFields"
    /\ env.ENCRYPTION_KEY = UNDEFINED
    /\ cipher.result = MalformedFailure

\* C21: two calls of encryptApiKey for one plaintext under one master secret
\* return different tokens: each call draws its own salt and its own iv, both
\* are written into the token (fields 1 and 2), and the tag and the
\* ciphertext depend on them as well.
C21_TwoCallsTwoTokens ==
    (cipher.token2 # <<>> /\ cipher.damage = "none")
    => /\ cipher.token2 # cipher.token
       /\ Len(Split(cipher.token2)) = 4
       /\ \A i \in {1, 3, 5, 7} : cipher.token2[i] # cipher.token[i]

C21_Witness ==
    /\ cipher.token2 # <<>>
    /\ cipher.plaintext = ApiKeyOf(1)
    /\ cipher.sealedUnder = K1
    /\ cipher.token = SealToken(K1, ApiKeyOf(1), Rnd("s1"), Rnd("n1"))
    /\ cipher.token2 = SealToken(K1, ApiKeyOf(1), Rnd("s2"), Rnd("n2"))

\* a 2xx answer whose metric list has no item 'mrr' and no item 'revenue'
NoMatchingMetrics(resp) ==
    /\ resp.net
    /\ resp.status \in 200..299
    /\ resp.body.json = "object"
    /\ "metrics" \in DOMAIN resp.body.fields
    /\ \A i \in 1..Len(resp.body.fields.metrics) :
          resp.body.fields.metrics[i].id \notin {"mrr", "revenue"}

\* C22: a 2xx answer with no 'mrr' and no 'revenue' item makes
\* fetchRevenueCatMetrics return {mrr: 0, revenue: 0}, not throw; the cron
\* request goes on to the upsert with those zeros and, when the upsert goes
\* through, the entry's revenue_metrics row holds 0 and 0, success is one
\* more, and failed, deleted and errors are as they were.
C22_NoMatchingMetricsIsZeroReading ==
    [][ \A r \in RunIds :
           NoMatchingMetrics(run[r].resp)
           => LET id == run[r].list[run[r].idx].startup_id IN
              /\ run[r].pc = "write"
              /\ run[r].outcome[id] = Ok([mrr |-> 0, revenue |-> 0])
              /\ run[r].metrics = [mrr |-> 0, revenue |-> 0]
              /\ (run'[r] # run[r] /\ id \notin run'[r].faults)
                 => /\ revenue_metrics'[id] =
                          [total_revenue |-> 0, mrr |-> 0, last_updated |-> now]
                    /\ run'[r].results =
                          [run[r].results EXCEPT !.success = @ + 1] ]_vars

\* the run is over, the entry was answered with no matching metric, it was
\* counted as succeeded and its row, 1 and 1 before, holds zeros
C22_Witness ==
    \E id \in DOMAIN revenue_metrics :
       /\ run[1].pc = "done"
       /\ id \in AdapterOk(run[1])
       /\ run[1].outcome[id] = Ok([mrr |-> 0, revenue |-> 0])
       /\ id \notin run[1].faults
       /\ run[1].results.success >= 1
       /\ ErrorsOf(run[1], id) = {}
       /\ id \in DOMAIN run[1].snap[3]
       /\ run[1].snap[3][id].mrr = 1
       /\ revenue_metrics[id].mrr = 0 /\ revenue_metrics[id].total_revenue = 0

\* C23: when a cron request has run to its end with the datastore accepting
\* its writes, a second cron request that gets the same answers from
\* RevenueCat changes nothing but last_updated: the three tables have the
\* rows they had when the second request loaded its list, with the same
\* total_revenue and mrr.
C23_SecondRunChangesNothing ==
    (/\ run[1].pc = "done"
     /\ run[1].response.status = 200
     /\ run[1].faults = {}
     /\ run[2].pc = "done"
     /\ run[2].snap # <<>>)
    => /\ startups = run[2].snap[1]
       /\ api_keys = run[2].snap[2]
       /\ DOMAIN revenue_metrics = DOMAIN run[2].snap[3]
       /\ \A id \in DOMAIN revenue_metrics :
             /\ revenue_metrics[id].mrr = run[2].snap[3][id].mrr
             /\ revenue_metrics[id].total_revenue = run[2].snap[3][id].total_revenue

\* both requests updated one entry with 9 and 5, the second at a later time
C23_Witness ==
    \E id \in DOMAIN revenue_metrics :
       /\ run[1].pc = "done" /\ run[2].pc = "done"
       /\ run[1].faults = {} /\ run[2].faults = {}
       /\ id \in AdapterOk(run[1]) /\ id \in AdapterOk(run[2])
       /\ run[1].results.success >= 1 /\ run[2].results.success >= 1
       /\ run[1].results.deleted >= 1
       /\ run[2].snap[3][id] = [total_revenue |-> 9, mrr |-> 5, last_updated |-> 1]
       /\ revenue_metrics[id] = [total_revenue |-> 9, mrr |-> 5, last_updated |-> 2]

\* the tables as the first request left them: the second request's log of
\* its load once it has one, the tables themselves before that
LeftBehind ==
    IF run[2].snap # <<>> THEN run[2].snap ELSE <<startups, api_keys, revenue_metrics>>

\* the entry's three rows in the tables t are those of the tables u
SameRows(id, t, u) ==
    \A n \in 1..3 : id \in DOMAIN t[n] /\ id \in DOMAIN u[n] /\ t[n][id] = u[n][id]

\* C24: when the host ended a cron request that was through with the first
\* k entries of its list, the store it leaves has, for each of those k, what
\* the request did (the fetched metrics written, the entry removed, or the
\* rows as they were for an entry that failed); the rows of every other entry
\* of the list are as they were when the list was loaded; and the next
\* request's list has every one of those other entries.
C24_KilledRunKeepsWorkAndLeavesRest ==
    run[1].pc = "killed"
    => LET rec == run[1] IN
       \A i \in 1..Len(rec.list) :
          LET id == rec.list[i].startup_id IN
          IF i < rec.idx
          THEN IF id \in AdapterOk(rec) /\ id \notin rec.faults
               THEN /\ id \in DOMAIN LeftBehind[3]
                    /\ LeftBehind[3][id].mrr = rec.outcome[id].value.mrr
                    /\ LeftBehind[3][id].total_revenue = rec.outcome[id].value.revenue
                    /\ id \in DOMAIN LeftBehind[1] /\ LeftBehind[1][id] = rec.snap[1][id]
                    /\ id \in DOMAIN LeftBehind[2] /\ LeftBehind[2][id] = rec.snap[2][id]
               ELSE IF id \in AdapterInvalid(rec) /\ id \notin rec.faults
               THEN \A n \in 1..3 : id \notin DOMAIN LeftBehind[n]
               ELSE SameRows(id, LeftBehind, rec.snap)
          ELSE /\ SameRows(id, LeftBehind, rec.snap)
               /\ run[2].snap # <<>> => id \in ListIds(run[2])
               /\ run[2].pc = "done" => run[2].response # NoStartupsResponse

\* the first request was ended after one entry of two, which it had updated;
\* the next request found the other entry as it was and updated it
C24_Witness ==
    /\ run[1].pc = "killed"
    /\ Len(run[1].list) = 2 /\ run[1].idx = 2
    /\ run[1].list[1].startup_id \in AdapterOk(run[1])
    /\ run[1].list[1].startup_id \notin run[1].faults
    /\ run[2].pc = "done"
    /\ run[1].list[2].startup_id \in AdapterOk(run[2])
    /\ run[1].list[2].startup_id \notin run[2].faults
    /\ run[2].snap[3][run[1].list[1].startup_id].mrr = 5
    /\ run[2].snap[3][run[1].list[2].startup_id].mrr = 1
    /\ revenue_metrics[run[1].list[2].startup_id].mrr \in {0, 5}

-----------------------------------------------------------------------------
(* The vocabulary of the properties of the rate limiter *)

\* the requests up to the i-th that the limiter put in the window of the i-th
SameWindow(i) ==
    { j \in 1..i : /\ decisions[j].id = decisions[i].id
                   /\ decisions[j].resetAt = decisions[i].resetAt }

\* the admitted requests up to the i-th that the client of the i-th made
\* less than an hour before it
AdmittedInHourBefore(i) ==
    { j \in 1..i : /\ decisions[j].id = decisions[i].id
                   /\ decisions[j].allowed
                   /\ decisions[i].at - decisions[j].at < RATE_WINDOW }

Verdict(result) == <<result.allowed, result.current, result.resetAt>>

\* C30: the periodic cleanup cannot be observed: every call of
\* checkRateLimit, the one that runs the cleanup included, returns the
\* allowed, current and resetAt it would return on the store as it was,
\* without the cleanup.
C30_CleanupUnobservable ==
    [][decisions' # decisions =>
         LET d == decisions'[Len(decisions')] IN
         <<d.allowed, d.current, d.resetAt>> =
             Verdict(checkRateLimitIn(rateLimitStore, d.id, RATE_MAX, RATE_WINDOW))]_vars

-----------------------------------------------------------------------------
(* The frame of a cron request *)

\* the row of id in a table, or its absence
RowOf(table, id) == IF id \in DOMAIN table THEN <<table[id]>> ELSE <<>>

\* the entry the request is working on
Current(rec) == rec.list[rec.idx].startup_id

\* the requests that take a step on the entry id
WorkingOn(id) ==
    { r \in RunIds : /\ run[r].pc \in {"write", "delete"}
                     /\ run'[r] # run[r]
                     /\ Current(run[r]) = id }

\* C26: a step of a cron request leaves every startups row and every
\* api_keys row as it is, unless it deletes the entry, and then the entry's
\* three rows go together; it creates no entry; the step that counts entry e
\* as succeeded changes the revenue_metrics row of e and no other row of any
\* table; and a step on entry e changes no row of another entry.
C26_RefreshTouchesOnlyItsEntry ==
    [][/\ DOMAIN startups' \subseteq DOMAIN startups
       /\ DOMAIN api_keys' \subseteq DOMAIN api_keys
       /\ \A id \in DOMAIN startups \cup DOMAIN api_keys :
             \/ /\ RowOf(startups', id) = RowOf(startups, id)
                /\ RowOf(api_keys', id) = RowOf(api_keys, id)
             \/ /\ id \notin DOMAIN startups'
                /\ id \notin DOMAIN api_keys'
                /\ id \notin DOMAIN revenue_metrics'
       /\ \A r \in RunIds :
             (run[r].pc = "write" /\ run'[r].results.success = run[r].results.success + 1)
                 => /\ startups' = startups
                    /\ api_keys' = api_keys
                    /\ Current(run[r]) \in DOMAIN revenue_metrics'
                    /\ \A k \in (DOMAIN revenue_metrics \cup DOMAIN revenue_metrics')
                                \ {Current(run[r])} :
                          RowOf(revenue_metrics', k) = RowOf(revenue_metrics, k)
       /\ \A k \in DOMAIN startups \cup DOMAIN api_keys \cup DOMAIN revenue_metrics
                   \cup DOMAIN revenue_metrics' :
             WorkingOn(k) = {}
                 => /\ RowOf(startups', k) = RowOf(startups, k)
                    /\ RowOf(api_keys', k) = RowOf(api_keys, k)
                    /\ RowOf(revenue_metrics', k) = RowOf(revenue_metrics, k)
      ]_vars

\* the first of two entries has succeeded: its metrics row is new, its other
\* rows and the rows of the second entry are those the request loaded
C26_Witness ==
    /\ run[1].pc = "entry"
    /\ Len(run[1].list) = 2
    /\ run[1].idx = 2
    /\ run[1].results.success = 1
    /\ LET e == run[1].list[1].startup_id
           other == run[1].list[2].startup_id
       IN  /\ revenue_metrics[e] # run[1].snap[3][e]
           /\ startups[e] = run[1].snap[1][e]
           /\ api_keys[e] = run[1].snap[2][e]
           /\ SameRows(other, <<startups, api_keys, revenue_metrics>>, run[1].snap)

-----------------------------------------------------------------------------
(* The outcome of each entry of a cron request *)

\* the entries the loop is through with
ProcessedIds(rec) == { rec.list[i].startup_id : i \in Processed(rec) }

\* the processed entries whose metrics were fetched and written
SucceededIds(rec) == (ProcessedIds(rec) \cap AdapterOk(rec)) \ rec.faults

\* the processed entries whose key was found invalid and which were deleted
RemovedIds(rec) == (ProcessedIds(rec) \cap AdapterInvalid(rec)) \ rec.faults

\* the other processed entries
FailedIds(rec) == ProcessedIds(rec) \ (SucceededIds(rec) \cup RemovedIds(rec))

\* C27: while a cron request goes through a list of N entries, and when it
\* has ended, each entry it is through with has exactly one outcome: the
\* count of succeeded, of failed and of removed entries is the number of
\* entries with that outcome, the three add up to the number of entries
\* processed so far (N at the end), and the error list has one record for
\* each failed entry and none for any other.
C27_OneOutcomePerEntry ==
    \A r \in RunIds :
        LET rec == run[r] IN
        (rec.pc \in {"entry", "write", "delete", "done"} /\ rec.list # <<>>) =>
            /\ rec.results.success = Cardinality(SucceededIds(rec))
            /\ rec.results.deleted = Cardinality(RemovedIds(rec))
            /\ rec.results.failed = Cardinality(FailedIds(rec))
            /\ rec.results.success + rec.results.failed + rec.results.deleted
                  = Cardinality(ProcessedIds(rec))
            /\ Cardinality(ProcessedIds(rec)) = rec.idx - 1
            /\ rec.pc = "done" => rec.idx - 1 = Len(rec.list)
            /\ Len(rec.results.errors) = rec.results.failed
            /\ \A id \in FailedIds(rec) : Cardinality(ErrorsOf(rec, id)) = 1
            /\ \A id \in ListIds(rec) \ FailedIds(rec) : ErrorsOf(rec, id) = {}

\* a request over two entries has ended with one removed and one failed, and
\* the next one, over the entry that is left, with one succeeded
C27_Witness ==
    /\ run[1].pc = "done" /\ Len(run[1].list) = 2
    /\ Cardinality(RemovedIds(run[1])) = 1
    /\ Cardinality(FailedIds(run[1])) = 1
    /\ Len(run[1].results.errors) = 1
    /\ run[2].pc = "done" /\ Len(run[2].list) = 1
    /\ Cardinality(SucceededIds(run[2])) = 1
    /\ run[2].results.errors = <<>>

-----------------------------------------------------------------------------
\* C28: when the adapter reports the key of an entry as invalid and the
\* delete of the entry then fails, the step counts the entry as failed and
\* not as removed, appends one error record that names the entry and reads
\* 'Failed to delete startup: ' followed by the message of deleteStartup's
\* error (the same words again and the datastore's message), leaves
\* every row of the store as it is, and goes on to the next entry or, after
\* the last one, to the report.
C28_FailedDeleteIsFailed ==
    [][\A r \in RunIds :
          (/\ run[r].pc = "delete"
           /\ run'[r] # run[r]
           /\ run'[r].pc # "killed"
           /\ Current(run[r]) \in run'[r].faults) =>
              LET rec == run[r]
                  id == Current(rec)
                  next == run'[r]
              IN  /\ id \in AdapterInvalid(rec)
                  /\ next.results.failed = rec.results.failed + 1
                  /\ next.results.deleted = rec.results.deleted
                  /\ next.results.success = rec.results.success
                  /\ next.results.errors =
                        Append(rec.results.errors,
                               [startup_id |-> id,
                                error |-> <<"Failed", "to", "delete", "startup", ":">>
                                          \o <<"Failed", "to", "delete", "startup", ":">>
                                          \o M_DbError])
                  /\ <<startups', api_keys', revenue_metrics'>>
                        = <<startups, api_keys, revenue_metrics>>
                  /\ id \in DOMAIN startups /\ id \in DOMAIN api_keys
                  /\ next.idx = rec.idx + 1
                  /\ next.pc = IF rec.idx < Len(rec.list) THEN "entry" ELSE "done"
      ]_vars

\* the delete of the first of two entries failed; the entry is still there,
\* and the request went on and refreshed the second
C28_Witness ==
    LET rec == run[1] IN
    /\ rec.pc = "done" /\ Len(rec.list) = 2
    /\ rec.list[1].startup_id \in AdapterInvalid(rec) \cap rec.faults
    /\ rec.list[1].startup_id \in DOMAIN startups \cap DOMAIN api_keys
    /\ rec.list[2].startup_id \in SucceededIds(rec)
    /\ rec.results.deleted = 0 /\ rec.results.failed = 1 /\ rec.results.success = 1

-----------------------------------------------------------------------------
(* The steps a registration has to pass *)

\* every field of the submission passes its validation (lines 79-150)
AllValid(body) ==
    /\ body.json
    /\ validateName(body.name).valid
    /\ validateProjectId(body.projectId).valid
    /\ validateApiKey(body.revenuecatApiKey).valid
    /\ Falsy(body.websiteUrl) \/ validateUrl(body.websiteUrl).valid
    /\ Falsy(body.appStoreId) \/ validateAppStoreId(body.appStoreId).valid
    /\ Falsy(body.founderUsername) \/ validateUsername(body.founderUsername).valid
    /\ ~Falsy(body.websiteUrl) \/ ~Falsy(body.appStoreId)

\* no credential row of the store has the project id
Free(projectId) ==
    \A k \in DOMAIN api_keys : api_keys[k].revenuecat_project_id # projectId

\* RevenueCat's n-th answer to the request let the adapter return metrics
Answered(rec, n) ==
    /\ Len(rec.answers) >= n
    /\ fetchRevenueCatMetrics(rec.input.apiKey, rec.input.projectId, rec.answers[n]).ok

====
